---- MODULE Spec2Model ----
(***************************************************************************)
(* A model of McpWaf's plan-execution loop                                 *)
(* (meramodule/ai/orchestrator.py, AIOrchestrator.execute_intelligent_scan)*)
(* and of its per-principal process limiter                                *)
(* (meramodule/security/sandbox.py, ProcessLimiter).                       *)
(***************************************************************************)
EXTENDS Naturals, Integers, Sequences, FiniteSets, TLC

(***************************************************************************)
(* Bounds of the model.                                                    *)
(***************************************************************************)
\* Longest plan handed to execute_intelligent_scan.
MaxInitSteps == 2
\* Longest next_actions list of one decision.
MaxActions == 2
\* Number of threads calling into one ProcessLimiter.
NumThreads == 2
\* Number of principals (user_id values).
NumUsers == 2
\* ProcessLimiter(max_processes): the ceiling the limiter was constructed with.
max_processes == 2

(***************************************************************************)
(* State.                                                                  *)
(***************************************************************************)
VARIABLES
    \* ---- one run of execute_intelligent_scan ----
    target_url,        \* plan["target_url"]
    plan,              \* plan["steps"]: the sequence of steps, grown in place
    initial_steps,     \* len(plan["steps"]) when the run was entered
    i,                 \* the for loop's index: steps 1..i are behind the cursor
    pc,                \* where the coroutine is: "loop", "analyze", "final", "done"
    step_results,      \* execution_results["step_results"]
    ai_decisions,      \* execution_results["ai_decisions"]: per decision its step,
                       \* stop flag, whether it is the failure default, and the
                       \* length of its next_actions
    final_assessment,  \* execution_results["final_assessment"]
    dispatched,        \* the calls made to the server's tool methods, in order
    dup_policy,        \* every decision so far: stop=false and one next action
                       \* naming a tool that was already in the plan
    \* ---- one ProcessLimiter shared by the threads ----
    active_processes,  \* self.active_processes: per user_id the value it
                       \* holds (0 is read for a key it does not have)
    ap_keys,           \* the keys self.active_processes has
    lock,              \* self.lock: its owner, or NoOwner
    lpc,               \* per thread: the statement it is at
    luser,             \* per thread: the user_id argument of its call
    lcaller,           \* per thread: who called can_execute
    lcan,              \* per thread: what can_execute returned to start_process
    lret,              \* per thread: what its last finished call returned
    \* ---- one SecurityMonitor ----
    now,               \* time.time(): the clock the monitor reads, in seconds
    ticks,             \* how often the clock has advanced
    rate_limits,       \* self.rate_limits: per key the retained timestamps
    rl_callers,        \* the (user_id, action) pairs that call check_rate_limit
    rl_last,           \* the last check_rate_limit call and what it returned
    rl_grants,         \* per (user_id, action): the times of its granted checks
                       \* (those older than the window dropped at its checks)
    rl_denied,         \* the (user_id, action) pairs that were refused so far
    suspicious_activities,  \* self.suspicious_activities, as runs of equal entries
    arrivals,          \* every entry log_activity was called with, in order
    bursts,            \* how many bursts of log_activity calls were made
    suspicious,        \* the last detect_suspicious_behavior call and its result
    \* ---- one SecurityValidator and a caller of one of its methods ----
    v_call,            \* the method the caller calls and its argument
    v_rets,            \* what the calls made so far returned, in order
    \* ---- one DockerSandbox ----
    client,            \* self.client: "docker", or "None"
    sb_records,        \* the records execute_tool_safely returned, in order
    launched,          \* the containers and child processes it started
    staged,            \* the temporary input files it created: "exists" or
                       \* "unlinked"
    \* ---- one ai_pentest request served by MCPPentestServer ----
    request,           \* where _ai_pentest is: "called", "scanning", "returned"
    planned,           \* what analyze_and_plan returned
    response,          \* what _ai_pentest returned
    \* ---- one AdvancedScanner and a caller of one of its methods ----
    sc_call,           \* the method called, its arguments, and what each tool
                       \* process it starts does
    sc_ret,            \* what the call returned
    \* ---- threads calling into the SecurityMonitor ----
    mpc,               \* per thread: the statement it is at
    mlocal,            \* per thread: its local variables
    mcalls,            \* how many calls the threads have made
    mgranted           \* how many check_rate_limit calls returned True

scan_vars == <<target_url, plan, initial_steps, i, pc, step_results,
               ai_decisions, final_assessment, dispatched,
               dup_policy>>
limiter_vars ==
    <<active_processes, ap_keys, lock, lpc, luser, lcaller, lcan, lret>>
clock_vars == <<now, ticks>>
rate_vars == <<rate_limits, rl_callers, rl_last, rl_grants, rl_denied>>
activity_vars == <<suspicious_activities, arrivals, bursts, suspicious>>
validator_vars == <<v_call, v_rets>>
sandbox_vars == <<client, sb_records, launched, staged>>
pentest_vars == <<request, planned, response>>
scanner_vars == <<sc_call, sc_ret>>
mthreads_vars == <<mpc, mlocal, mcalls, mgranted>>
vars == <<target_url, plan, initial_steps, i, pc, step_results,
          ai_decisions, final_assessment, dispatched, dup_policy,
          active_processes, ap_keys, lock, lpc, luser, lcaller, lcan, lret,
          now, ticks, rate_limits, rl_callers, rl_last, rl_grants, rl_denied,
          suspicious_activities, arrivals, bursts, suspicious,
          v_call, v_rets, client, sb_records, launched, staged,
          request, planned, response, sc_call, sc_ret,
          mpc, mlocal, mcalls, mgranted>>

\* What a component leaves alone: the state of the others.
non_scan_vars ==
    <<pentest_vars, limiter_vars, clock_vars, rate_vars, activity_vars,
      validator_vars, sandbox_vars, scanner_vars, mthreads_vars>>
non_pentest_vars ==
    <<limiter_vars, clock_vars, rate_vars, activity_vars, validator_vars,
      sandbox_vars, scanner_vars, mthreads_vars>>
non_limiter_vars ==
    <<scan_vars, pentest_vars, clock_vars, rate_vars, activity_vars,
      validator_vars, sandbox_vars, scanner_vars, mthreads_vars>>
non_rate_vars ==
    <<scan_vars, pentest_vars, limiter_vars, activity_vars,
      validator_vars, sandbox_vars, scanner_vars, mthreads_vars>>
non_activity_vars ==
    <<scan_vars, pentest_vars, limiter_vars, rate_vars, validator_vars,
      sandbox_vars, scanner_vars, mthreads_vars>>
non_validator_vars ==
    <<scan_vars, pentest_vars, limiter_vars, clock_vars, rate_vars,
      activity_vars, sandbox_vars, scanner_vars, mthreads_vars>>
non_sandbox_vars ==
    <<scan_vars, pentest_vars, limiter_vars, clock_vars, rate_vars,
      activity_vars, validator_vars, scanner_vars, mthreads_vars>>
non_scanner_vars ==
    <<scan_vars, pentest_vars, limiter_vars, clock_vars, rate_vars,
      activity_vars, validator_vars, sandbox_vars, mthreads_vars>>
non_mthreads_vars ==
    <<scan_vars, pentest_vars, limiter_vars, clock_vars, rl_callers, rl_last,
      rl_grants, rl_denied, bursts, suspicious, validator_vars, sandbox_vars,
      scanner_vars>>

Last(s) == s[Len(s)]

\* dict.get(key) of a dict without the key: an absent key holds Absent.
Absent == "<absent>"

(***************************************************************************)
(* Text.  A str is the sequence of its characters, each a one-character    *)
(* string; a control character is written as its escape, such as "\\x1f".  *)
(***************************************************************************)
UpperCase ==
    <<"A", "B", "C", "D", "E", "F", "G", "H", "I", "J", "K", "L", "M",
      "N", "O", "P", "Q", "R", "S", "T", "U", "V", "W", "X", "Y", "Z">>
LowerCase ==
    <<"a", "b", "c", "d", "e", "f", "g", "h", "i", "j", "k", "l", "m",
      "n", "o", "p", "q", "r", "s", "t", "u", "v", "w", "x", "y", "z">>

\* str.lower() and str.upper(), on the letters A-Z and a-z.
LowerChar(c) ==
    IF \E j \in 1..26 : UpperCase[j] = c
    THEN LowerCase[CHOOSE j \in 1..26 : UpperCase[j] = c]
    ELSE c
UpperChar(c) ==
    IF \E j \in 1..26 : LowerCase[j] = c
    THEN UpperCase[CHOOSE j \in 1..26 : LowerCase[j] = c]
    ELSE c
lower(s) == [j \in 1..Len(s) |-> LowerChar(s[j])]
upper(s) == [j \in 1..Len(s) |-> UpperChar(s[j])]

\* e in s, for two strs.
Contains(s, e) ==
    \E k \in 0..(Len(s) - Len(e)) : SubSeq(s, k + 1, k + Len(e)) = e

(***************************************************************************)
(* Targets and the Security Validator (security/validator.py).             *)
(* A URL is what urlparse makes of it: scheme, netloc, hostname.  A host   *)
(* is a name or an address literal, with the class ipaddress reports.      *)
(***************************************************************************)
PublicTarget ==
    [scheme |-> "http", netloc |-> TRUE, host |-> <<"9", "3", ".", "1", "8", "4", ".", "2", "1", "6", ".", "3", "4">>,
     literal |-> TRUE, class |-> "global"]
LoopbackTarget ==
    [scheme |-> "http", netloc |-> TRUE, host |-> <<"1", "2", "7", ".", "0", ".", "0", ".", "1">>,
     literal |-> TRUE, class |-> "loopback"]
ScanTargets == {PublicTarget, LoopbackTarget}

\* self.blocked_domains, lines 14-17.
blocked_domains ==
    {<<"l", "o", "c", "a", "l", "h", "o", "s", "t">>,
     <<"1", "2", "7", ".", "0", ".", "0", ".", "1">>,
     <<"0", ".", "0", ".", "0", ".", "0">>,
     <<":", ":", "1">>,
     <<"i", "n", "t", "e", "r", "n", "a", "l">>,
     <<"p", "r", "i", "v", "a", "t", "e">>,
     <<"a", "d", "m", "i", "n">>,
     <<"r", "o", "o", "t">>}

_is_private_ip(url) ==
    url.literal /\ url.class \in {"private", "loopback", "link_local"}

_is_blocked_domain(url) ==
    \/ url.host = <<>>
    \/ \E blocked \in blocked_domains : Contains(lower(url.host), blocked)

validate_target(url) ==
    /\ url.scheme # ""
    /\ url.netloc
    /\ url.scheme \in {"http", "https"}
    /\ ~_is_private_ip(url)
    /\ ~_is_blocked_domain(url)

(***************************************************************************)
(* Steps, tools, decisions.                                                *)
(***************************************************************************)
\* The tool names _execute_tool_via_mcp dispatches; any other raises ValueError.
KnownTools_AndNmap ==
    {"full_recon", "vulnerability_scan", "sqlmap_scan", "xss_scan", "ssti_scan",
     "nmap"}
KnownTools ==
    {"full_recon", "vulnerability_scan", "sqlmap_scan", "xss_scan", "ssti_scan"}

\* action.get("tool") of a next action without a (truthy) tool.
NoTool == "None"

\* Tool names of the plans the run is entered with ("nmap" is a sandbox tool
\* identifier the orchestrator does not dispatch).
InitialTools == {"full_recon", "nmap"}
\* Tool names the decision collaborator proposes.
ProposedTools == {"full_recon", "xss_scan", "nmap"}

\* step.get("params", {}): a dict, with or without a "url" of its own, or a
\* value that is no dict (null, a list, a string).
StepParams(is_dict, url) == [is_dict |-> is_dict, url |-> url]
\* params without the key "url": the key holds NoUrl.
NoUrl ==
    [scheme |-> "", netloc |-> FALSE, host |-> <<>>, literal |-> FALSE,
     class |-> "absent"]
EmptyParams == StepParams(TRUE, NoUrl)
NotADictParams == StepParams(FALSE, NoUrl)

\* A step of the plan: its tool and the params it was given.
PlanStep(tool, params) == [tool |-> tool, params |-> params]
\* A step with "params": {}, as line 101 makes them.
Step(tool) == PlanStep(tool, EmptyParams)

\* params["url"] = target_url, line 71.
SetUrl_KeepsOwn(params, url) ==
    IF params.url = NoUrl THEN [params EXCEPT !.url = url] ELSE params
SetUrl(params, url) == [params EXCEPT !.url = url]

\* What the server's tool methods raise, and str(e) of an exception.
Exception(type, message) == [type |-> type, message |-> message]
ToolExceptions == {Exception("RuntimeError", "scan failed")}
UnknownTool(tool) == Exception("ValueError", "Unknown tool: " \o tool)
ItemAssignment ==
    Exception("TypeError", "'NoneType' object does not support item assignment")
NoAttributeGet ==
    Exception("AttributeError", "'str' object has no attribute 'get'")
KeyErrorReasoning == Exception("KeyError", "'reasoning'")
NoException == Exception("None", "")
str_e(e) == e.message

RECURSIVE SeqsUpTo(_, _)
SeqsUpTo(S, n) ==
    IF n = 0 THEN {<<>>}
    ELSE LET shorter == SeqsUpTo(S, n - 1)
         IN  shorter \cup {Append(s, x) : s \in {t \in shorter : Len(t) = n - 1}, x \in S}

InitialPlans == SeqsUpTo({Step(t) : t \in InitialTools}, MaxInitSteps)

\* One element of next_actions.  is_dict = FALSE stands for an element that is
\* no JSON object, and for a next_actions value that is no list (a string, a
\* number, an object): each raises at the first action.get.
NotADict == [is_dict |-> FALSE, tool |-> NoTool, has_reasoning |-> FALSE]
NextAction(tool, has_reasoning) ==
    [is_dict |-> TRUE, tool |-> tool, has_reasoning |-> has_reasoning]
NextActions ==
    {NextAction(t, TRUE) : t \in ProposedTools}
        \cup {NextAction("full_recon", FALSE), NextAction("xss_scan", FALSE)}
        \cup {NextAction(NoTool, TRUE), NotADict}

\* What _analyze_step_results returns when the call or the parse fails.
DefaultDecision_Stops ==
    [stop_scanning |-> TRUE, next_actions |-> <<>>, error |-> TRUE]
DefaultDecision ==
    [stop_scanning |-> FALSE, next_actions |-> <<>>, error |-> TRUE]

\* What _analyze_step_results returns when the response parses as an object.
ParsedDecisions ==
    [stop_scanning : BOOLEAN, next_actions : SeqsUpTo(NextActions, MaxActions),
     error : {FALSE}]

\* analysis.get("stop_scanning", False), line 90.
StopRequested_Never(d) == FALSE
StopRequested(d) == d.stop_scanning

\* _analyze_step_results(results, target_url, step): every value it can return.
_analyze_step_results == ParsedDecisions \cup {DefaultDecision}

\* [s.get("tool") for s in plan.get("steps", [])]
ToolsOf_InitialOnly(p) ==
    {p[j].tool : j \in {k \in 1..Len(p) : k <= initial_steps}}
ToolsOf(p) == {p[j].tool : j \in 1..Len(p)}

\* The guard of line 96.
ActionAccepted_NoDedup(p, a) ==
    a.tool # NoTool
ActionAccepted(p, a) ==
    a.tool # NoTool /\ a.tool \notin ToolsOf(p)

\* Line 103: plan["steps"].append(additional_step).
plan_steps_append_AtFront(p, additional_step) == <<additional_step>> \o p
plan_steps_append(p, additional_step) == Append(p, additional_step)

\* The loop over analysis["next_actions"] (lines 94-104): the plan it leaves
\* and whether it raised (which ends the loop over the actions), and what.
RECURSIVE ApplyNextActions(_, _)
ApplyNextActions(p, acts) ==
    IF acts = <<>> THEN [plan |-> p, raised |-> FALSE, e |-> NoException]
    ELSE LET a == Head(acts) IN
         IF ~a.is_dict THEN [plan |-> p, raised |-> TRUE, e |-> NoAttributeGet]
         ELSE IF ActionAccepted(p, a)
              THEN IF a.has_reasoning
                   THEN ApplyNextActions(plan_steps_append(p, Step(a.tool)),
                                         Tail(acts))
                   ELSE [plan |-> p, raised |-> TRUE, e |-> KeyErrorReasoning]
              ELSE ApplyNextActions(p, Tail(acts))

\* A decision of the policy "stop=false with one next action that names a
\* tool the plan already has".
IsDuplicateOnly(p, d) ==
    /\ ~d.error
    /\ ~d.stop_scanning
    /\ Len(d.next_actions) = 1
    /\ d.next_actions[1].is_dict
    /\ d.next_actions[1].tool \in ToolsOf(p)

\* _generate_final_assessment: the report, or on failure the basic summary.
_generate_final_assessment_Raises(report_ok) ==
    IF report_ok THEN "report" ELSE "empty"
_generate_final_assessment(report_ok) ==
    IF report_ok THEN "report" ELSE "basic_summary"

(***************************************************************************)
(* execute_intelligent_scan.                                               *)
(***************************************************************************)
ScanInit ==
    /\ target_url \in ScanTargets
    /\ plan \in InitialPlans
    /\ initial_steps = Len(plan)
    /\ i = 0
    /\ pc = "loop"
    /\ step_results = <<>>
    /\ ai_decisions = <<>>
    /\ final_assessment = "empty"
    /\ dispatched = <<>>
    /\ dup_policy = TRUE

\* No run is in progress (the limiter is looked at on its own).
ScanIdle ==
    /\ target_url = PublicTarget
    /\ plan = <<>>
    /\ initial_steps = 0
    /\ i = 0
    /\ pc = "loop"
    /\ step_results = <<>>
    /\ ai_decisions = <<>>
    /\ final_assessment = "empty"
    /\ dispatched = <<>>
    /\ dup_policy = TRUE

error_result_ZeroBased(n, tool, e) ==
    [step_number |-> n - 1, tool |-> tool, kind |-> "error", error |-> str_e(e)]
error_result(n, tool, e) ==
    [step_number |-> n, tool |-> tool, kind |-> "error", error |-> str_e(e)]
step_result_ZeroBased(n, tool) ==
    [step_number |-> n - 1, tool |-> tool, kind |-> "result", error |-> Absent]
step_result(n, tool) ==
    [step_number |-> n, tool |-> tool, kind |-> "result", error |-> Absent]

\* Lines 65-85 and 106-114: the loop takes the next step, sets its url and
\* awaits _execute_tool_via_mcp; the tool returns, or raises, or the name is
\* unknown, or the step's params take no item.
ExecuteStep ==
    /\ pc = "loop"
    /\ i < Len(plan)
    /\ LET tool == plan[i + 1].tool
           params == plan[i + 1].params
       IN
        \/ /\ params.is_dict
           /\ tool \in KnownTools
           /\ dispatched' = Append(dispatched,
                  [step_number |-> i + 1, tool |-> tool,
                   url |-> SetUrl(params, target_url).url])
           /\ \/ /\ step_results' = Append(step_results, step_result(i + 1, tool))
                 /\ pc' = "analyze"
                 /\ i' = i
              \/ \E e \in ToolExceptions :
                 /\ step_results' = Append(step_results, error_result(i + 1, tool, e))
                 /\ pc' = "loop"
                 /\ i' = i + 1
        \/ /\ ~params.is_dict \/ tool \notin KnownTools
           /\ step_results' = Append(step_results,
                  error_result(i + 1, tool,
                               IF params.is_dict THEN UnknownTool(tool)
                               ELSE ItemAssignment))
           /\ pc' = "loop"
           /\ i' = i + 1
           /\ UNCHANGED dispatched
    /\ UNCHANGED <<target_url, plan, initial_steps, ai_decisions,
                   final_assessment, dup_policy>>

\* Lines 87-104 (and 106-114 when the loop over next_actions raises).
AnalyzeStep ==
    /\ pc = "analyze"
    /\ \E d \in _analyze_step_results :
        /\ ai_decisions' = Append(ai_decisions,
               [step_number |-> i + 1, stop_scanning |-> d.stop_scanning,
                error |-> d.error, next_actions |-> Len(d.next_actions)])
        /\ dup_policy' = (dup_policy /\ IsDuplicateOnly(plan, d))
        /\ IF StopRequested(d)
           THEN /\ pc' = "final"
                /\ UNCHANGED <<plan, i, step_results>>
           ELSE LET r == ApplyNextActions(plan, d.next_actions) IN
                /\ plan' = r.plan
                /\ step_results' =
                       IF r.raised
                       THEN Append(step_results,
                                   error_result(i + 1, plan[i + 1].tool, r.e))
                       ELSE step_results
                /\ i' = i + 1
                /\ pc' = "loop"
    /\ UNCHANGED <<target_url, initial_steps, final_assessment, dispatched>>

\* Line 65: the for loop finds no further step.
LoopExhausted ==
    /\ pc = "loop"
    /\ i = Len(plan)
    /\ pc' = "final"
    /\ UNCHANGED <<target_url, plan, initial_steps, i, step_results,
                   ai_decisions, final_assessment, dispatched,
                   dup_policy>>

\* Lines 116-119.
GenerateFinalAssessment ==
    /\ pc = "final"
    /\ \E report_ok \in BOOLEAN :
        final_assessment' = _generate_final_assessment(report_ok)
    /\ pc' = "done"
    /\ UNCHANGED <<target_url, plan, initial_steps, i, step_results,
                   ai_decisions, dispatched, dup_policy>>

ScanNext ==
    \/ ExecuteStep /\ UNCHANGED non_scan_vars
    \/ AnalyzeStep /\ UNCHANGED non_scan_vars
    \/ LoopExhausted /\ UNCHANGED non_scan_vars
    \/ GenerateFinalAssessment /\ UNCHANGED non_scan_vars

(***************************************************************************)
(* MCPPentestServer._ai_pentest (server.py) and                            *)
(* AIOrchestrator.analyze_and_plan (ai/orchestrator.py).                   *)
(***************************************************************************)
\* _create_fallback_plan(target_url)["steps"], lines 229-242.
_create_fallback_plan == <<Step("full_recon"), Step("vulnerability_scan")>>

\* plan.get("fallback_plan") of a return value without that key.
NoPlan == "None"

\* plan["steps"] of the plans the planning collaborator's response parses
\* to: steps without params, with a url of their own, with params that are
\* no dict, and with a tool the orchestrator does not dispatch.
PlannedPlans ==
    {<<>>,
     <<PlanStep("full_recon", StepParams(TRUE, LoopbackTarget))>>,
     <<Step("nmap"), Step("full_recon")>>,
     <<Step("full_recon"), PlanStep("vulnerability_scan", NotADictParams)>>,
     <<Step("full_recon"), Step("vulnerability_scan")>>}

\* analyze_and_plan(target_url, ai_model): every value it can return.  error
\* is "error" in plan, as _ai_pentest tests it.
\*   line 36: no client for the model, or a model that is neither gpt* nor
\*            claude*;
\*   lines 50-54: the call, json.loads or the assignments of lines 39-40
\*            raised;
\*   line 48: the parsed response, which may itself have an "error" key.
analyze_and_plan ==
    {[error |-> TRUE, fallback_plan |-> NoPlan, steps |-> <<>>],
     [error |-> TRUE, fallback_plan |-> _create_fallback_plan, steps |-> <<>>]}
        \cup [error : BOOLEAN, fallback_plan : {NoPlan}, steps : PlannedPlans]

\* No analyze_and_plan call has returned.
NotPlanned == [error |-> FALSE, fallback_plan |-> NoPlan, steps |-> <<>>]

\* The TextContent _ai_pentest returns: lines 152-155, 172-185, 197-200.
PentestResponse(kind, fallback_used, total_steps, ai_decisions_made, assessment) ==
    [kind |-> kind, fallback_used |-> fallback_used,
     total_steps |-> total_steps, ai_decisions_made |-> ai_decisions_made,
     final_assessment |-> assessment]
NoResponse == PentestResponse("none", NoPlan, 0, 0, "empty")

\* _call_tool("ai_pentest", {"url": ...}) has been called.
PentestInit ==
    /\ target_url \in ScanTargets
    /\ plan = <<>>
    /\ initial_steps = 0
    /\ i = 0
    /\ pc = "loop"
    /\ step_results = <<>>
    /\ ai_decisions = <<>>
    /\ final_assessment = "empty"
    /\ dispatched = <<>>
    /\ dup_policy = TRUE
    /\ request = "called"
    /\ planned = NotPlanned
    /\ response = NoResponse

\* No ai_pentest request is being served.
PentestIdle ==
    /\ request = "none"
    /\ planned = NotPlanned
    /\ response = NoResponse

\* _ai_pentest, lines 148-159, and execute_intelligent_scan, lines 57-63:
\* the plan is asked for; a plan with an "error" key is answered at once, any
\* other is handed to execute_intelligent_scan.
PlanPentest ==
    /\ request = "called"
    /\ \E p \in analyze_and_plan :
        /\ planned' = p
        /\ IF p.error
           THEN /\ response' = PentestResponse("ai_planning_error",
                                   p.fallback_plan, 0, 0, "empty")
                /\ request' = "returned"
                /\ UNCHANGED <<plan, initial_steps>>
           ELSE /\ plan' = p.steps
                /\ initial_steps' = Len(p.steps)
                /\ request' = "scanning"
                /\ UNCHANGED response
    /\ UNCHANGED <<target_url, i, pc, step_results, ai_decisions,
                   final_assessment, dispatched, dup_policy>>

\* The steps of execute_intelligent_scan, awaited by _ai_pentest at line 159.
ScanForPentest == request = "scanning" /\ ScanNext

\* _ai_pentest, lines 161-200: the audit log is written and the final report
\* returned, or writing it raises and the error is returned.
ReportPentest ==
    /\ request = "scanning"
    /\ pc = "done"
    /\ \E audit_ok \in BOOLEAN :
        response' =
            IF audit_ok
            THEN PentestResponse("final_report", NoPlan, Len(step_results),
                                 Len(ai_decisions), final_assessment)
            ELSE PentestResponse("ai_pentest_error", NoPlan, 0, 0, "empty")
    /\ request' = "returned"
    /\ UNCHANGED <<scan_vars, planned>>

PentestNext ==
    \/ PlanPentest /\ UNCHANGED non_pentest_vars
    \/ ScanForPentest
    \/ ReportPentest /\ UNCHANGED non_pentest_vars

(***************************************************************************)
(* ProcessLimiter.                                                         *)
(***************************************************************************)
Threads == 1..NumThreads
Users == 1..NumUsers
NoOwner == 0

LimiterInit ==
    /\ active_processes = [u \in Users |-> 0]
    /\ ap_keys = {}
    /\ lock = NoOwner
    /\ lpc = [t \in Threads |-> "idle"]
    /\ luser = [t \in Threads |-> 1]
    /\ lcaller = [t \in Threads |-> "none"]
    /\ lcan = [t \in Threads |-> FALSE]
    /\ lret = [t \in Threads |-> "none"]

\* self.lock = threading.Lock(): a lock that is not reentrant; acquire
\* succeeds only while nobody owns it, the caller included.
LockAvailable_NoExclusion(owner, t) == TRUE
LockAvailable(owner, t) == owner = NoOwner

\* can_execute, lines 182-183.
can_execute(ap, u) == ap[u] < max_processes

\* start_process, lines 187-190, after can_execute has returned ok.
start_process_body(ap, keys, u, ok) ==
    IF ok
    THEN [active |-> [ap EXCEPT ![u] = ap[u] + 1], keys |-> keys \cup {u},
          ret |-> "True"]
    ELSE [active |-> ap, keys |-> keys, ret |-> "False"]

\* max(0, n), line 195.
max0(n) == IF n > 0 THEN n ELSE 0

\* end_process, lines 194-197: a key the dict has is lowered, not below 0,
\* and deleted at 0; without the key nothing is done.
end_process_body_NoKeyTest(ap, keys, u) ==
    [active |-> [ap EXCEPT ![u] = max0(ap[u] - 1)], keys |-> keys \cup {u}]
end_process_body(ap, keys, u) ==
    IF u \in keys
    THEN LET n == max0(ap[u] - 1) IN
         [active |-> [ap EXCEPT ![u] = n],
          keys |-> IF n = 0 THEN keys \ {u} ELSE keys]
    ELSE [active |-> ap, keys |-> keys]

\* A thread calls start_process(user_id): it is at "with self.lock", line 186.
CallStartProcess(t, u) ==
    /\ lpc[t] = "idle"
    /\ lpc' = [lpc EXCEPT ![t] = "start_process_lock"]
    /\ luser' = [luser EXCEPT ![t] = u]
    /\ lcaller' = [lcaller EXCEPT ![t] = "none"]
    /\ lret' = [lret EXCEPT ![t] = "none"]
    /\ UNCHANGED <<active_processes, ap_keys, lock, lcan>>

\* A thread calls end_process(user_id): it is at "with self.lock", line 193.
CallEndProcess(t, u) ==
    /\ lpc[t] = "idle"
    /\ lpc' = [lpc EXCEPT ![t] = "end_process_lock"]
    /\ luser' = [luser EXCEPT ![t] = u]
    /\ lcaller' = [lcaller EXCEPT ![t] = "none"]
    /\ lret' = [lret EXCEPT ![t] = "none"]
    /\ UNCHANGED <<active_processes, ap_keys, lock, lcan>>

\* A thread calls can_execute(user_id): it is at "with self.lock", line 181.
CallCanExecute(t, u) ==
    /\ lpc[t] = "idle"
    /\ lpc' = [lpc EXCEPT ![t] = "can_execute_lock"]
    /\ luser' = [luser EXCEPT ![t] = u]
    /\ lcaller' = [lcaller EXCEPT ![t] = "caller"]
    /\ lret' = [lret EXCEPT ![t] = "none"]
    /\ UNCHANGED <<active_processes, ap_keys, lock, lcan>>

\* "with self.lock" of lines 181, 186 and 193: the thread gets the lock.  In
\* start_process the next statement (line 187) calls can_execute, whose first
\* statement is "with self.lock" again.
AcquireLock(t) ==
    /\ lpc[t] \in {"start_process_lock", "can_execute_lock", "end_process_lock"}
    /\ LockAvailable(lock, t)
    /\ lock' = t
    /\ lpc' = [lpc EXCEPT ![t] =
                  CASE lpc[t] = "start_process_lock" -> "can_execute_lock"
                    [] lpc[t] = "can_execute_lock" -> "can_execute_body"
                    [] lpc[t] = "end_process_lock" -> "end_process_body"]
    /\ lcaller' = [lcaller EXCEPT ![t] =
                      IF lpc[t] = "start_process_lock" THEN "start_process"
                      ELSE lcaller[t]]
    /\ UNCHANGED <<active_processes, ap_keys, luser, lcan, lret>>

\* The body of the with block the thread is in, up to the block's end, which
\* releases the lock: lines 182-183, 187-190 (after can_execute returned) and
\* 194-197.
RunLockedBody(t) ==
    /\ lpc[t] \in {"can_execute_body", "start_process_body", "end_process_body"}
    /\ lock' = NoOwner
    /\ IF lpc[t] = "can_execute_body"
       THEN LET ok == can_execute(active_processes, luser[t]) IN
            IF lcaller[t] = "start_process"
            THEN /\ lpc' = [lpc EXCEPT ![t] = "start_process_body"]
                 /\ lcan' = [lcan EXCEPT ![t] = ok]
                 /\ UNCHANGED <<active_processes, ap_keys, lret>>
            ELSE /\ lpc' = [lpc EXCEPT ![t] = "idle"]
                 /\ lret' = [lret EXCEPT ![t] = IF ok THEN "True" ELSE "False"]
                 /\ UNCHANGED <<active_processes, ap_keys, lcan>>
       ELSE IF lpc[t] = "start_process_body"
       THEN LET r == start_process_body(active_processes, ap_keys, luser[t],
                                        lcan[t])
            IN
            /\ active_processes' = r.active
            /\ ap_keys' = r.keys
            /\ lret' = [lret EXCEPT ![t] = r.ret]
            /\ lpc' = [lpc EXCEPT ![t] = "idle"]
            /\ UNCHANGED lcan
       ELSE /\ LET r == end_process_body(active_processes, ap_keys, luser[t]) IN
                /\ active_processes' = r.active
                /\ ap_keys' = r.keys
            /\ lret' = [lret EXCEPT ![t] = "None"]
            /\ lpc' = [lpc EXCEPT ![t] = "idle"]
            /\ UNCHANGED lcan
    /\ UNCHANGED <<luser, lcaller>>

LimiterProgress(t) ==
    (AcquireLock(t) \/ RunLockedBody(t)) /\ UNCHANGED non_limiter_vars

LimiterNext ==
    \/ \E t \in Threads, u \in Users : CallStartProcess(t, u) /\ UNCHANGED non_limiter_vars
    \/ \E t \in Threads, u \in Users : CallEndProcess(t, u) /\ UNCHANGED non_limiter_vars
    \/ \E t \in Threads, u \in Users : CallCanExecute(t, u) /\ UNCHANGED non_limiter_vars
    \/ \E t \in Threads : AcquireLock(t) /\ UNCHANGED non_limiter_vars
    \/ \E t \in Threads : RunLockedBody(t) /\ UNCHANGED non_limiter_vars

(***************************************************************************)
(* SecurityMonitor.check_rate_limit (security/sandbox.py).                 *)
(***************************************************************************)
\* How often the clock advances in a behaviour of the rate limiter.
MaxRateTicks == 2

\* time.time() between two calls: the clock moves on by one of these.
RateTimeSteps == {1, 3599}

\* A caller of check_rate_limit: its user_id and action arguments.
RatePair(user_id, action) == [user_id |-> user_id, action |-> action]

\* The callers of one process: one (user_id, action) pair of each class, two
\* users of one class, or two pairs whose user_id and action join to the
\* same text.
RateWorkloads ==
    {{RatePair("u", a)} : a \in {"scan", "recon", "exploit", "probe"}}
        \cup {{RatePair("u", "exploit"), RatePair("v", "exploit")}}
        \cup {{RatePair("u:x", "exploit"), RatePair("u", "x:exploit")}}
RatePairs == UNION RateWorkloads

\* key = f"{user_id}:{action}", line 245.
RateKey(user_id, action) == user_id \o ":" \o action
RateKeys == {RateKey(p.user_id, p.action) : p \in RatePairs}

\* max_requests.get(action, 20), lines 255-261.
max_requests(action) ==
    CASE action = "scan" -> 10
      [] action = "recon" -> 5
      [] action = "exploit" -> 3
      [] OTHER -> 20

\* Lines 250-253: the timestamps of the key that are kept.
Retained_KeepsBoundary(timestamps, current_time) ==
    SelectSeq(timestamps, LAMBDA timestamp : current_time - timestamp <= 3600)
Retained(timestamps, current_time) ==
    SelectSeq(timestamps, LAMBDA timestamp : current_time - timestamp < 3600)

\* check_rate_limit with the append of line 266 moved before the test of
\* line 263.
check_rate_limit_CountsDenied(rl, user_id, action, current_time) ==
    LET key == RateKey(user_id, action)
        kept == Retained(rl[key], current_time)
    IN  [rate_limits |-> [rl EXCEPT ![key] = Append(kept, current_time)],
         ret |-> Len(kept) < max_requests(action)]

\* check_rate_limit(user_id, action) at current_time: the map it leaves and
\* what it returns.  A key that is absent holds the empty list (lines 247-248).
check_rate_limit(rl, user_id, action, current_time) ==
    LET key == RateKey(user_id, action)
        kept == Retained(rl[key], current_time)
        limit == max_requests(action)
    IN  IF Len(kept) >= limit
        THEN [rate_limits |-> [rl EXCEPT ![key] = kept], ret |-> FALSE]
        ELSE [rate_limits |-> [rl EXCEPT ![key] = Append(kept, current_time)],
              ret |-> TRUE]

NoCheck == [user_id |-> "", action |-> "", time |-> 0, ret |-> FALSE]

ClockInit ==
    /\ now = 0
    /\ ticks = 0

RateInit ==
    /\ rate_limits = [k \in RateKeys |-> <<>>]
    /\ rl_callers \in RateWorkloads
    /\ rl_last = NoCheck
    /\ rl_grants = [p \in RatePairs |-> <<>>]
    /\ rl_denied = {}

\* No caller uses the rate limiter.
RateIdle ==
    /\ rate_limits = [k \in RateKeys |-> <<>>]
    /\ rl_callers = {}
    /\ rl_last = NoCheck
    /\ rl_grants = [p \in RatePairs |-> <<>>]
    /\ rl_denied = {}

\* One call of check_rate_limit, lines 243-267.
CheckRateLimit(p) ==
    /\ p \in rl_callers
    /\ LET r == check_rate_limit(rate_limits, p.user_id, p.action, now)
           mine == SelectSeq(rl_grants[p], LAMBDA t : now - t < 3600)
       IN  /\ rate_limits' = r.rate_limits
           /\ rl_last' = [user_id |-> p.user_id, action |-> p.action,
                          time |-> now, ret |-> r.ret]
           /\ rl_grants' = [rl_grants EXCEPT ![p] =
                               IF r.ret THEN Append(mine, now) ELSE mine]
           /\ rl_denied' = IF r.ret THEN rl_denied ELSE rl_denied \cup {p}
    /\ UNCHANGED <<rl_callers, clock_vars>>

\* Time passes between two calls.
RateTick(dt) ==
    /\ ticks < MaxRateTicks
    /\ now' = now + dt
    /\ ticks' = ticks + 1
    /\ UNCHANGED rate_vars

RateNext ==
    \/ \E p \in RatePairs : CheckRateLimit(p) /\ UNCHANGED non_rate_vars
    \/ \E dt \in RateTimeSteps : RateTick(dt) /\ UNCHANGED non_rate_vars

(***************************************************************************)
(* SecurityMonitor.log_activity and detect_suspicious_behavior.            *)
(* self.suspicious_activities is a list of entries; it is held here as the *)
(* runs of equal consecutive entries and the list's length:                *)
(* [runs |-> <<[activity, count], ...>>, len |-> len(list)].               *)
(***************************************************************************)
\* How many bursts of log_activity calls a behaviour has.
MaxBursts == 2
\* How often the clock advances in a behaviour of the activity log.
MaxLogTicks == 2

\* time.time() between two calls: the clock moves on by this much.
LogTimeSteps == {150}

MonitorUsers == {"p", "q"}

\* A caller's loop of k log_activity calls at one time for one user: on k
\* distinct targets (fanout) or on one target.
LogBursts ==
    {[user_id |-> "p", k |-> 11, fanout |-> TRUE],
     [user_id |-> "p", k |-> 51, fanout |-> FALSE],
     [user_id |-> "q", k |-> 5, fanout |-> FALSE],
     [user_id |-> "q", k |-> 1000, fanout |-> FALSE]}

\* Lines 232-237.
Activity(user_id, action, target, timestamp) ==
    [user_id |-> user_id, action |-> action, target |-> target,
     timestamp |-> timestamp]

EmptyLog == [runs |-> <<>>, len |-> 0]

\* list.append(activity), line 238.
append(log, activity) ==
    LET n == Len(log.runs) IN
    [runs |-> IF n > 0 /\ log.runs[n].activity = activity
              THEN [log.runs EXCEPT ![n].count = @ + 1]
              ELSE Append(log.runs, [activity |-> activity, count |-> 1]),
     len |-> log.len + 1]

\* list[-n:] of the runs: the last n entries.
RECURSIVE LastRuns(_, _)
LastRuns(runs, n) ==
    IF n = 0 \/ runs = <<>> THEN <<>>
    ELSE LET r == runs[Len(runs)] IN
         IF r.count >= n THEN <<[r EXCEPT !.count = n]>>
         ELSE Append(LastRuns(SubSeq(runs, 1, Len(runs) - 1), n - r.count), r)

\* list[:n] of the runs: the first n entries.
RECURSIVE FirstRuns(_, _)
FirstRuns(runs, n) ==
    IF n = 0 \/ runs = <<>> THEN <<>>
    ELSE LET r == runs[1] IN
         IF r.count >= n THEN <<[r EXCEPT !.count = n]>>
         ELSE <<r>> \o FirstRuns(SubSeq(runs, 2, Len(runs)), n - r.count)

Min(a, b) == IF a < b THEN a ELSE b

\* self.suspicious_activities[-500:], line 241.
Trimmed_KeepsOldest(log) ==
    [runs |-> FirstRuns(log.runs, 500), len |-> Min(log.len, 500)]
Trimmed(log) ==
    [runs |-> LastRuns(log.runs, 500), len |-> Min(log.len, 500)]

\* log_activity, lines 231-241: the list it leaves.
log_activity(log, activity) ==
    LET appended == append(log, activity) IN
    IF appended.len > 1000 THEN Trimmed(appended) ELSE appended

\* The target of the j-th call of a burst.
BurstTarget(fanout, j) == IF fanout THEN j ELSE 1

\* The calls lo..hi of a burst, one after the other (the list holds an entry
\* after every call).
RECURSIVE LogCalls(_, _, _, _, _, _)
LogCalls(log, user_id, fanout, timestamp, lo, hi) ==
    IF lo > hi THEN log
    ELSE IF lo = hi
    THEN log_activity(log, Activity(user_id, "scan", BurstTarget(fanout, lo), timestamp))
    ELSE LET mid == (lo + hi) \div 2
             first == LogCalls(log, user_id, fanout, timestamp, lo, mid)
         IN  CASE first.len > 0 ->
                  LogCalls(first, user_id, fanout, timestamp, mid + 1, hi)

\* The same calls as the entries that arrived (nothing is dropped).
RECURSIVE Arrived(_, _, _, _, _, _)
Arrived(log, user_id, fanout, timestamp, lo, hi) ==
    IF lo > hi THEN log
    ELSE IF lo = hi
    THEN append(log, Activity(user_id, "scan", BurstTarget(fanout, lo), timestamp))
    ELSE LET mid == (lo + hi) \div 2
             first == Arrived(log, user_id, fanout, timestamp, lo, mid)
         IN  CASE first.len > 0 ->
                  Arrived(first, user_id, fanout, timestamp, mid + 1, hi)

\* The number of entries of some runs.
RECURSIVE Entries(_)
Entries(runs) ==
    IF runs = <<>> THEN 0 ELSE runs[1].count + Entries(SubSeq(runs, 2, Len(runs)))

\* Lines 270-274: the user's entries of the trailing 300 seconds.
recent_activities_AllUsers(runs, user_id, current_time) ==
    SelectSeq(runs, LAMBDA r : current_time - r.activity.timestamp < 300)
recent_activities(runs, user_id, current_time) ==
    SelectSeq(runs, LAMBDA r : /\ r.activity.user_id = user_id
                               /\ current_time - r.activity.timestamp < 300)

\* detect_suspicious_behavior, lines 269-283.
detect_suspicious_behavior_AnyUser(log, user_id, current_time) ==
    LET recent == SelectSeq(log.runs,
                      LAMBDA r : current_time - r.activity.timestamp < 300)
        unique_targets == {recent[j].activity.target : j \in 1..Len(recent)}
    IN  Entries(recent) > 50 \/ Cardinality(unique_targets) > 10
detect_suspicious_behavior(log, user_id, current_time) ==
    LET recent == recent_activities(log.runs, user_id, current_time)
        unique_targets == {recent[j].activity.target : j \in 1..Len(recent)}
    IN  Entries(recent) > 50 \/ Cardinality(unique_targets) > 10

NoDetect == [user_id |-> "", ret |-> FALSE, time |-> 0]

ActivityInit ==
    /\ suspicious_activities = EmptyLog
    /\ arrivals = EmptyLog
    /\ bursts = 0
    /\ suspicious = NoDetect

\* A burst of log_activity calls.
LogActivity(b) ==
    /\ bursts < MaxBursts
    /\ suspicious_activities' =
           LogCalls(suspicious_activities, b.user_id, b.fanout, now, 1, b.k)
    /\ arrivals' = Arrived(arrivals, b.user_id, b.fanout, now, 1, b.k)
    /\ bursts' = bursts + 1
    /\ UNCHANGED <<suspicious, clock_vars>>

\* One call of detect_suspicious_behavior.
DetectSuspiciousBehavior(user_id) ==
    /\ suspicious' =
           [user_id |-> user_id, time |-> now,
            ret |-> detect_suspicious_behavior(suspicious_activities, user_id, now)]
    /\ UNCHANGED <<suspicious_activities, arrivals, bursts, clock_vars>>

\* Time passes between two calls.
LogTick(dt) ==
    /\ ticks < MaxLogTicks
    /\ now' = now + dt
    /\ ticks' = ticks + 1
    /\ UNCHANGED activity_vars

ActivityNext ==
    \/ \E b \in LogBursts : LogActivity(b) /\ UNCHANGED non_activity_vars
    \/ \E u \in MonitorUsers :
           DetectSuspiciousBehavior(u) /\ UNCHANGED non_activity_vars
    \/ \E dt \in LogTimeSteps : LogTick(dt) /\ UNCHANGED non_activity_vars

\* self.blocked_commands, lines 8-13.
blocked_commands ==
    {<<"r", "m", " ", "-", "r", "f">>,
     <<"s", "h", "u", "t", "d", "o", "w", "n">>,
     <<"r", "e", "b", "o", "o", "t">>,
     <<"f", "o", "r", "m", "a", "t">>,
     <<"d", "e", "l", " ", "/", "f">>,
     <<"r", "m", "d", "i", "r", " ", "/", "s">>,
     <<"p", "o", "w", "e", "r", "s", "h", "e", "l", "l">>,
     <<"c", "m", "d", ".", "e", "x", "e">>,
     <<"b", "a", "s", "h">>,
     <<"/", "b", "i", "n", "/", "s", "h">>,
     <<"n", "c", " ", "-", "e">>,
     <<"n", "e", "t", "c", "a", "t">>,
     <<"c", "u", "r", "l", " ", "-", "X", " ", "P", "O", "S", "T">>,
     <<"w", "g", "e", "t", " ", "-", "O">>,
     <<"p", "y", "t", "h", "o", "n", " ", "-", "c">>,
     <<"e", "v", "a", "l">>,
     <<"e", "x", "e", "c">>,
     <<"i", "m", "p", "o", "r", "t", " ", "o", "s">>,
     <<"s", "u", "b", "p", "r", "o", "c", "e", "s", "s">>,
     <<"_", "_", "i", "m", "p", "o", "r", "t", "_", "_">>,
     <<"o", "p", "e", "n", "(">>}

\* The hosts of the URLs validate_target is given: parsed_url.hostname, whether
\* ipaddress.ip_address parses it (literal), and the class of the address it
\* is or resolves to.
ValidatorHosts ==
    {[host |-> <<"9", "3", ".", "1", "8", "4", ".", "2", "1", "6", ".", "3", "4">>,
      literal |-> TRUE, class |-> "global"],
     [host |-> <<"e", "x", "a", "m", "p", "l", "e", ".", "c", "o", "m">>,
      literal |-> FALSE, class |-> "global"],
     [host |-> <<"1", "2", "7", ".", "0", ".", "0", ".", "1">>,
      literal |-> TRUE, class |-> "loopback"],
     [host |-> <<"1", "0", ".", "0", ".", "0", ".", "5">>,
      literal |-> TRUE, class |-> "private"],
     [host |-> <<"1", "7", "2", ".", "1", "6", ".", "0", ".", "1">>,
      literal |-> TRUE, class |-> "private"],
     [host |-> <<"1", "9", "2", ".", "1", "6", "8", ".", "1", ".", "1">>,
      literal |-> TRUE, class |-> "private"],
     [host |-> <<"1", "6", "9", ".", "2", "5", "4", ".", "1", "6", "9", ".", "2", "5", "4">>,
      literal |-> TRUE, class |-> "link_local"],
     [host |-> <<":", ":", "1">>,
      literal |-> TRUE, class |-> "loopback"],
     [host |-> <<"l", "o", "c", "a", "l", "h", "o", "s", "t">>,
      literal |-> FALSE, class |-> "loopback"],
     [host |-> <<"i", "n", "t", "r", "a", "n", "e", "t", ".", "e", "x", "a", "m", "p", "l", "e", ".", "c", "o", "m">>,
      literal |-> FALSE, class |-> "private"],
     [host |-> <<"1", "2", "7", ".", "1">>,
      literal |-> FALSE, class |-> "loopback"],
     [host |-> <<"a", "d", "m", "i", "n", ".", "e", "x", "a", "m", "p", "l", "e", ".", "c", "o", "m">>,
      literal |-> FALSE, class |-> "global"],
     [host |-> <<"m", "e", "t", "a", "d", "a", "t", "a", ".", "e", "x", "a", "m", "p", "l", "e", ".", "c", "o", "m">>,
      literal |-> FALSE, class |-> "link_local"]}

(***************************************************************************)
(* SecurityValidator: validate_target, validate_command and                *)
(* validate_parameters as they are called (security/validator.py).         *)
(***************************************************************************)
\* parsed_url.scheme of the URLs validate_target is given.
ValidatorSchemes == {"http", "https", "ftp", ""}

\* urlparse(url) of a text without "//": no scheme, no netloc, no hostname.
NoNetloc ==
    [scheme |-> "", netloc |-> FALSE, host |-> <<>>, literal |-> FALSE,
     class |-> "global"]

ValidatorTargets ==
    {[scheme |-> s, netloc |-> TRUE, host |-> h.host, literal |-> h.literal,
      class |-> h.class] : s \in ValidatorSchemes, h \in ValidatorHosts}
        \cup {NoNetloc}

\* validate_command, lines 42-44.
validate_command(command) ==
    LET command_lower == lower(command) IN
    ~\E blocked \in blocked_commands : Contains(command_lower, blocked)

\* The commands validate_command is given: every entry of the denylist as it
\* is written, in lower case and in upper case, alone and inside a longer
\* command, and commands without any entry.
CommandContexts ==
    {[pre |-> <<>>, post |-> <<>>],
     [pre |-> <<"s", "u", "d", "o", " ">>, post |-> <<" ", "-", "v">>]}
CommandTexts ==
    {c.pre \o v \o c.post :
        v \in UNION {{e, lower(e), upper(e)} : e \in blocked_commands},
        c \in CommandContexts}
        \cup {<<"l", "s", " ", "-", "l", "a">>,
              <<"n", "m", "a", "p", " ", "-", "s", "V", " ", "h", "o", "s", "t">>}

\* The characters re.sub(r'[<>"\']', '', value) removes, line 95.
QuoteChars == {"<", ">", "\"", "'"}
\* Characters of [\x00-\x1f\x7f-\x9f], line 96: the ends of both ranges and
\* a tab.
ControlChars == {"\\x00", "\\x09", "\\x1f", "\\x7f", "\\x9f"}

\* _sanitize_string, lines 94-97.
_sanitize_string_KeepsControl(value) ==
    LET a == SelectSeq(value, LAMBDA c : c \notin QuoteChars)
    IN  SubSeq(a, 1, Min(Len(a), 1000))
_sanitize_string(value) ==
    LET a == SelectSeq(value, LAMBDA c : c \notin QuoteChars)
        b == SelectSeq(a, LAMBDA c : c \notin ControlChars)
    IN  SubSeq(b, 1, Min(Len(b), 1000))

\* A parameter value or a list item: a str (text), a list (items), an int
\* (n), None, or a dict (text stands for a str inside it).
ParamValue(kind, text, items, n) ==
    [kind |-> kind, text |-> text, items |-> items, n |-> n]
StrValue(text) == ParamValue("str", text, <<>>, 0)
IntValue(n) == ParamValue("int", <<>>, <<>>, n)
NoneValue == ParamValue("None", <<>>, <<>>, 0)
ListValue(items) == ParamValue("list", <<>>, items, 0)
DictValue(text) == ParamValue("dict", text, <<>>, 0)

Digits == <<"0", "1", "2", "3", "4", "5", "6", "7", "8", "9">>
RECURSIVE IntText(_)
IntText(n) ==
    IF n < 10 THEN <<Digits[n + 1]>>
    ELSE IntText(n \div 10) \o <<Digits[(n % 10) + 1]>>

\* str(item), line 52.  A list item that is a list holds strs without
\* quotes or backslashes, which repr writes between single quotes.
RECURSIVE str(_)
str(item) ==
    CASE item.kind = "str" -> item.text
      [] item.kind = "int" -> IntText(item.n)
      [] item.kind = "None" -> <<"N", "o", "n", "e">>
      [] item.kind = "list" ->
            <<"[">>
            \o (IF item.items = <<>> THEN <<>>
                ELSE <<"'">> \o str(item.items[1]) \o <<"'">>)
            \o <<"]">>
      [] item.kind = "dict" -> <<"{", "'", "k", "'", ":", " ", "'">> \o item.text \o <<"'", "}">>

\* validate_parameters, lines 46-55.
validate_parameters(params) ==
    [key \in DOMAIN params |->
        LET value == params[key] IN
        CASE value.kind = "str" -> StrValue(_sanitize_string(value.text))
          [] value.kind = "list" ->
                ListValue([j \in 1..Len(value.items) |->
                              StrValue(_sanitize_string(str(value.items[j])))])
          [] OTHER -> value]

\* Texts of the parameter values: with every removed character, with the
\* characters next to the removed ranges, and longer than 1000 characters.
LongText(n, c) == [j \in 1..n |-> c]
ParamTexts ==
    {<<>>, <<"h", "t", "t", "p", ":", "/", "/", "t", "/">>, <<"<", "b", ">">>, <<"a", "\"", "b", "'", "c">>,
     <<"<", "<", "a", ">", ">">>,
     <<"a", "\\x00", "b">>, <<"\\x09", "\\x1f", "\\x7f", "\\x9f">>,
     <<" ", "~", "\\xa0">>, <<"<", "\\x1f", "'", "a">>,
     LongText(1000, "a"), LongText(1001, "a"),
     <<"<">> \o LongText(1000, "a") \o <<"b">>,
     LongText(999, "a") \o <<"\\x00", "b", "c">>}
ParamItems ==
    {StrValue(t) : t \in {<<"a">>, <<"<", "b", ">">>, <<"a", "\\x7f">>,
                           <<"<">> \o LongText(1000, "a") \o <<"b">>}}
        \cup {IntValue(0), IntValue(42), NoneValue,
              ListValue(<<StrValue(<<"<", "z", ">">>)>>), DictValue(<<"<">>)}
ParamValues ==
    {StrValue(t) : t \in ParamTexts}
        \cup {ListValue(<<>>)}
        \cup {ListValue(<<x>>) : x \in ParamItems}
        \cup {ListValue(<<x, y>>) : x \in ParamItems, y \in {IntValue(42), StrValue(<<"<", "b", ">">>)}}
        \cup {IntValue(5), NoneValue, DictValue(<<"<">>)}

\* The parameter maps validate_parameters is given.
NoParams == [key \in {} |-> NoneValue]
ParamMaps ==
    {NoParams}
        \cup {[key \in {"url"} |-> v] : v \in ParamValues}
        \cup {[key \in {"url", "parameters"} |->
                  IF key = "url" THEN StrValue(<<"<", "b", ">">>) ELSE v] :
              v \in {ListValue(<<StrValue(<<"i", "d", "'">>), IntValue(0)>>),
                     IntValue(5)}}

ValidatorCall(op, url, command, params) ==
    [op |-> op, url |-> url, command |-> command, params |-> params]
ValidatorCalls ==
    {ValidatorCall("validate_target", u, <<>>, NoParams) : u \in ValidatorTargets}
        \cup {ValidatorCall("validate_command", NoNetloc, c, NoParams) :
                 c \in CommandTexts}
        \cup {ValidatorCall("validate_parameters", NoNetloc, <<>>, m) :
                 m \in ParamMaps}
NoValidatorCall == ValidatorCall("none", NoNetloc, <<>>, NoParams)

ValidatorResult(ok, params) == [ok |-> ok, params |-> params]

\* A caller is about to call one method of a SecurityValidator.
ValidatorInit ==
    /\ v_call \in ValidatorCalls
    /\ v_rets = <<>>

\* No caller uses the validator.
ValidatorIdle ==
    /\ v_call = NoValidatorCall
    /\ v_rets = <<>>

\* validate_target(url) is called and returns.
ValidateTarget ==
    /\ v_call.op = "validate_target"
    /\ v_rets = <<>>
    /\ v_rets' = <<ValidatorResult(validate_target(v_call.url), NoParams)>>
    /\ UNCHANGED v_call

\* validate_command(command) is called and returns.
ValidateCommand ==
    /\ v_call.op = "validate_command"
    /\ v_rets = <<>>
    /\ v_rets' = <<ValidatorResult(validate_command(v_call.command), NoParams)>>
    /\ UNCHANGED v_call

\* validate_parameters is called with the caller's map, and then with the
\* map the first call returned.
ValidateParameters ==
    /\ v_call.op = "validate_parameters"
    /\ Len(v_rets) < 2
    /\ LET params == IF v_rets = <<>> THEN v_call.params ELSE v_rets[1].params
       IN  v_rets' = Append(v_rets, ValidatorResult(TRUE, validate_parameters(params)))
    /\ UNCHANGED v_call

ValidatorNext ==
    \/ ValidateTarget /\ UNCHANGED non_validator_vars
    \/ ValidateCommand /\ UNCHANGED non_validator_vars
    \/ ValidateParameters /\ UNCHANGED non_validator_vars

(***************************************************************************)
(* DockerSandbox (security/sandbox.py).                                    *)
(***************************************************************************)
\* How many calls of execute_tool_safely a behaviour has.
MaxSandboxCalls == 2

\* The tool_name arguments: the tools either mode knows, and a text that is
\* no tool.
SandboxTools == {"ffuf", "curl", "nmap", "sqlmap", "rm -rf /"}

\* The tool names _build_safe_command and _build_host_command have a
\* command for.
AllowList(mode) ==
    IF mode = "docker" THEN {"ffuf", "curl", "nmap"} ELSE {"sqlmap", "ffuf"}

\* args: a key that is absent holds Absent.
\* extra is a further key of args; a value such as a set or bytes is one
\* json.dump cannot write.
SandboxArgs ==
    {[url |-> "http://t/", wordlist |-> Absent, target |-> "t",
      parameters |-> <<>>, extra |-> Absent],
     [url |-> "http://t/", wordlist |-> "/w.txt", target |-> Absent,
      parameters |-> <<"id", "q">>, extra |-> Absent],
     [url |-> Absent, wordlist |-> Absent, target |-> Absent,
      parameters |-> <<>>, extra |-> Absent],
     [url |-> "http://t/", wordlist |-> Absent, target |-> Absent,
      parameters |-> <<>>, extra |-> "{1, 2}"]}

\* json.dump(args, f), line 44: raises TypeError on a value it cannot write,
\* after the file was created and part of the text written.
json_dump(args) == IF args.extra = Absent THEN "ok" ELSE "raises"

\* args.get(key, default)
ArgGet(value, default) == IF value = Absent THEN default ELSE value

\* ','.join(items)
RECURSIVE Join(_)
Join(items) ==
    IF items = <<>> THEN ""
    ELSE IF Len(items) = 1 THEN items[1]
    ELSE items[1] \o "," \o Join(Tail(items))

\* _build_safe_command, lines 125-147.
_build_safe_command(tool_name, args) ==
    CASE tool_name = "ffuf" ->
            <<"sh", "-c",
              "apk add --no-cache ffuf && ffuf -u \"$1\" -w \"$2\" -o /tmp/output.json -of json",
              "--", ArgGet(args.url, ""),
              ArgGet(args.wordlist, "/usr/share/wordlists/dirb/common.txt")>>
      [] tool_name = "curl" ->
            <<"curl", "-s", "-L", "--max-time", "10", "--max-redirs", "3",
              ArgGet(args.url, "")>>
      [] tool_name = "nmap" ->
            <<"nmap", "-sS", "-O", "--max-retries", "1", "--host-timeout", "30s",
              ArgGet(args.target, "")>>
      [] OTHER ->
            <<"echo", "Tool " \o tool_name \o " not supported in sandbox">>

\* _build_host_command, lines 149-172.
_build_host_command(tool_name, args) ==
    CASE tool_name = "sqlmap" ->
            <<"python3", "/usr/bin/sqlmap", "-u", ArgGet(args.url, ""),
              "--batch", "--level=3", "--risk=2", "--timeout=30", "--retries=1">>
            \o (IF args.parameters # <<>>
                THEN <<"-p", Join(args.parameters)>> ELSE <<>>)
      [] tool_name = "ffuf" ->
            <<"ffuf", "-u", ArgGet(args.url, "") \o "/FUZZ",
              "-w", ArgGet(args.wordlist, "/usr/share/wordlists/dirb/common.txt"),
              "-o", "/tmp/ffuf_output.json", "-of", "json", "-t", "10",
              "-timeout", "10">>
      [] OTHER ->
            <<"echo", "Tool " \o tool_name \o " execution blocked">>

\* The records execute_tool_safely returns: lines 57-62, 68-73, 75-80 with a
\* client, lines 99-106, 110-115, 118-123 without.
SandboxRecord(success, kind, tool_name, sandboxed) ==
    [success |-> success, kind |-> kind, tool |-> tool_name,
     sandboxed |-> sandboxed]
SandboxErrorRecord_Unflagged(tool_name) ==
    SandboxRecord(FALSE, "sandbox_error", tool_name, FALSE)
SandboxErrorRecord(tool_name) ==
    SandboxRecord(FALSE, "sandbox_error", tool_name, TRUE)

\* What was started: a container or a child process group, its command, and
\* whether it is still there.
Launched(mode, command, state) ==
    [mode |-> mode, command |-> command, state |-> state]

\* DockerSandbox.__init__, lines 12-18: the client, or None when Docker
\* cannot be reached.
SandboxInit ==
    /\ client \in {"docker", "None"}
    /\ sb_records = <<>>
    /\ launched = <<>>
    /\ staged = <<>>

\* No DockerSandbox is in use.
SandboxIdle ==
    /\ client = "None"
    /\ sb_records = <<>>
    /\ launched = <<>>
    /\ staged = <<>>

\* What the started command does: a container returns its output or exits
\* with a ContainerError; a child process exits in time with a return code or
\* is still running when the timeout expires, and then handles SIGTERM or
\* ignores it.  An echo prints and exits.
Outcomes(mode, command) ==
    IF mode = "docker"
    THEN IF command[1] = "echo" THEN {"returns"}
         ELSE {"returns", "container_error"}
    ELSE IF command[1] = "echo" THEN {"exit_0"}
         ELSE {"exit_0", "exit_1", "timeout_handles_term", "timeout_ignores_term"}

\* execute_tool_safely with a client, lines 40-80.
ExecuteInContainer(tool_name, args) ==
    /\ client = "docker"
    /\ LET command == _build_safe_command(tool_name, args) IN
        \/ \* tempfile.NamedTemporaryFile raises: no file, no container
           /\ sb_records' = Append(sb_records, SandboxErrorRecord(tool_name))
           /\ UNCHANGED <<launched, staged>>
        \/ \* json.dump raises inside the with block of lines 43-45, which
           \* closes the file (delete=False); the try of line 47 is not reached
           /\ json_dump(args) = "raises"
           /\ sb_records' = Append(sb_records, SandboxErrorRecord(tool_name))
           /\ staged' = Append(staged, "exists")
           /\ UNCHANGED launched
        \/ \* containers.run raises before a container runs; finally unlinks
           /\ json_dump(args) = "ok"
           /\ sb_records' = Append(sb_records, SandboxErrorRecord(tool_name))
           /\ staged' = Append(staged, "unlinked")
           /\ UNCHANGED launched
        \/ \E outcome \in Outcomes("docker", command) :
           /\ json_dump(args) = "ok"
           /\ launched' = Append(launched, Launched("container", command, "removed"))
           /\ staged' = Append(staged, "unlinked")
           /\ sb_records' = Append(sb_records,
                  IF outcome = "returns"
                  THEN SandboxRecord(TRUE, "output", tool_name, TRUE)
                  ELSE SandboxRecord(FALSE, "container_error", tool_name, TRUE))

\* _execute_without_docker, lines 82-123.
ExecuteWithoutDocker(tool_name, args) ==
    /\ client = "None"
    /\ UNCHANGED staged
    /\ LET command == _build_host_command(tool_name, args) IN
        \/ \* subprocess.Popen raises
           /\ sb_records' = Append(sb_records,
                  SandboxRecord(FALSE, "execution_error", tool_name, FALSE))
           /\ UNCHANGED launched
        \/ \E outcome \in Outcomes("None", command) :
           \/ /\ outcome \in {"exit_0", "exit_1"}
              /\ launched' = Append(launched, Launched("process", command, "exited"))
              /\ sb_records' = Append(sb_records,
                     SandboxRecord(outcome = "exit_0", "output", tool_name, FALSE))
           \/ \* subprocess.TimeoutExpired: os.killpg(..., SIGTERM), line 109,
              \* and the record is returned at once
              /\ outcome \in {"timeout_handles_term", "timeout_ignores_term"}
              /\ \E state \in IF outcome = "timeout_ignores_term"
                              THEN {"running"}
                              ELSE {"terminating", "exited"} :
                    launched' = Append(launched, Launched("process", command, state))
              /\ sb_records' = Append(sb_records,
                     SandboxRecord(FALSE, "timeout", tool_name, FALSE))

\* execute_tool_safely, lines 36-80.
ExecuteToolSafely(tool_name, args) ==
    /\ Len(sb_records) < MaxSandboxCalls
    /\ \/ ExecuteInContainer(tool_name, args)
       \/ ExecuteWithoutDocker(tool_name, args)
    /\ UNCHANGED client

\* A process group that outlived the call ends: it acts on the SIGTERM, or
\* finishes by itself.
ProbeExits(n) ==
    /\ n \in 1..Len(launched)
    /\ launched[n].state \in {"terminating", "running"}
    /\ launched' = [launched EXCEPT ![n].state = "exited"]
    /\ UNCHANGED <<client, sb_records, staged>>

SandboxNext ==
    \/ \E tool_name \in SandboxTools, args \in SandboxArgs :
           ExecuteToolSafely(tool_name, args) /\ UNCHANGED non_sandbox_vars
    \/ \E n \in 1..MaxSandboxCalls : ProbeExits(n) /\ UNCHANGED non_sandbox_vars

(***************************************************************************)
(* AdvancedScanner (tools/scanner.py).                                     *)
(***************************************************************************)
\* Longest parameters list a scanner is called with.
MaxParameters == 2

\* The scanner methods.
Scanners == {"run_sqlmap", "run_xsstrike", "run_tplmap"}
ScannerUrl == "http://t/p"
ScannerParameters == SeqsUpTo({"id", "q"}, MaxParameters)

\* The texts the scanners look for in result.stdout.
MightBeInjectable == <<"m", "i", "g", "h", "t", " ", "b", "e", " ", "i", "n", "j", "e", "c", "t", "a", "b", "l", "e">>
ParameterColon == <<"P", "a", "r", "a", "m", "e", "t", "e", "r", ":">>
XSS == <<"X", "S", "S">>
vulnerable == <<"v", "u", "l", "n", "e", "r", "a", "b", "l", "e">>
SSTI == <<"S", "S", "T", "I">>
TemplateInjection == <<"T", "e", "m", "p", "l", "a", "t", "e", " ", "i", "n", "j", "e", "c", "t", "i", "o", "n">>

\* result.stdout of one tool process.
ToolOutputs ==
    {<<>>,
     <<"a", "l", "l", " ", "t", "e", "s", "t", "e", "d", " ", "p", "a", "r", "a", "m", "e", "t", "e", "r", "s", " ", "d", "o", " ", "n", "o", "t", " ", "a", "p", "p", "e", "a", "r", " ", "t", "o", " ", "b", "e", " ", "i", "n", "j", "e", "c", "t", "a", "b", "l", "e">>,
     <<"G", "E", "T", " ", "p", "a", "r", "a", "m", "e", "t", "e", "r", " ", "'", "i", "d", "'", " ", "m", "i", "g", "h", "t", " ", "b", "e", " ", "i", "n", "j", "e", "c", "t", "a", "b", "l", "e">>,
     <<"P", "a", "r", "a", "m", "e", "t", "e", "r", ":", " ", "i", "d", " ", "(", "G", "E", "T", ")">>,
     <<"X", "S", "S">>,
     <<"V", "u", "l", "n", "e", "r", "a", "b", "l", "e">>,
     <<"p", "a", "g", "e", " ", "i", "s", " ", "v", "u", "l", "n", "e", "r", "a", "b", "l", "e">>,
     <<"S", "S", "T", "I">>,
     <<"T", "e", "m", "p", "l", "a", "t", "e", " ", "i", "n", "j", "e", "c", "t", "i", "o", "n">>}

\* subprocess.run(cmd, ...): the process completes with a stdout, the timeout
\* expires (subprocess.TimeoutExpired), or another exception is raised.
Completed(stdout) == [kind |-> "completed", stdout |-> stdout]
ToolRuns ==
    {Completed(stdout) : stdout \in ToolOutputs}
        \cup {[kind |-> "timeout", stdout |-> <<>>], [kind |-> "raises", stdout |-> <<>>]}

\* One element of results.  A key the dict does not have holds Absent.
Finding(parameter, url, is_vulnerable, vulnerability_type, risk_level, error) ==
    [parameter |-> parameter, url |-> url, vulnerable |-> is_vulnerable,
     vulnerability_type |-> vulnerability_type, risk_level |-> risk_level,
     error |-> error]

\* The results list after the loop over parameters: PerRun(param, run) is
\* what one pass appends, a list of one dict or of none.
RECURSIVE Concat(_)
Concat(lists) ==
    IF lists = <<>> THEN <<>> ELSE Head(lists) \o Concat(Tail(lists))
ForEachParameter(PerRun(_, _), parameters, runs) ==
    Concat([j \in 1..Len(parameters) |-> PerRun(parameters[j], runs[j])])

\* run_sqlmap, lines 13-84.
run_sqlmap(url, parameters, runs) ==
    LET PerRun(param, run) ==
            LET param_url == url \o "?" \o param \o "=1" IN
            CASE run.kind = "timeout" ->
                    <<Finding(param, param_url, FALSE, "SQLi", Absent, "Timeout")>>
              [] run.kind = "raises" ->
                    <<Finding(param, param_url, FALSE, "SQLi", Absent, "str(e)")>>
              [] OTHER ->
                    IF Contains(run.stdout, MightBeInjectable)
                           \/ Contains(run.stdout, ParameterColon)
                    THEN <<Finding(param, param_url, TRUE, "SQLi", "Critical", Absent)>>
                    ELSE <<>>
    IN  [tool |-> "sqlmap",
         results |->
            IF parameters # <<>> THEN ForEachParameter(PerRun, parameters, runs)
            ELSE IF runs[1].kind = "completed"
            THEN LET found == Contains(runs[1].stdout, MightBeInjectable) IN
                 <<Finding(Absent, url, found, "SQLi",
                           IF found THEN "Critical" ELSE "None", Absent)>>
            ELSE <<Finding(Absent, url, FALSE, "SQLi", Absent, "str(e)")>>]

\* run_xsstrike, lines 86-150.
run_xsstrike(url, parameters, runs) ==
    LET PerRun(param, run) ==
            LET param_url == url \o "?" \o param \o "=test" IN
            IF run.kind # "completed"
            THEN <<Finding(param, param_url, FALSE, "XSS", Absent, "str(e)")>>
            ELSE IF Contains(run.stdout, XSS)
                        \/ Contains(lower(run.stdout), vulnerable)
                 THEN <<Finding(param, param_url, TRUE, "XSS", "Medium", Absent)>>
                 ELSE <<Finding(param, param_url, FALSE, "XSS", Absent, Absent)>>
    IN  [tool |-> "xsstrike",
         results |->
            IF parameters # <<>> THEN ForEachParameter(PerRun, parameters, runs)
            ELSE IF runs[1].kind = "completed"
            THEN LET found == Contains(runs[1].stdout, XSS) IN
                 <<Finding(Absent, url, found, "XSS",
                           IF found THEN "Medium" ELSE "None", Absent)>>
            ELSE <<Finding(Absent, url, FALSE, "XSS", Absent, "str(e)")>>]

\* run_tplmap, lines 152-193: without parameters no process is run.
run_tplmap(url, parameters, runs) ==
    LET PerRun(param, run) ==
            LET param_url == url \o "?" \o param \o "=test" IN
            IF run.kind # "completed"
            THEN <<Finding(param, param_url, FALSE, "SSTI", Absent, "str(e)")>>
            ELSE IF Contains(run.stdout, SSTI)
                        \/ Contains(run.stdout, TemplateInjection)
                 THEN <<Finding(param, param_url, TRUE, "SSTI", "High", Absent)>>
                 ELSE <<Finding(param, param_url, FALSE, "SSTI", Absent, Absent)>>
    IN  [tool |-> "tplmap",
         results |-> ForEachParameter(PerRun, parameters, runs)]

\* A call of a scanner method, with what each tool process it starts will do
\* (one process per parameter; one process when there are no parameters).
ScannerCall(scanner, parameters, runs) ==
    [scanner |-> scanner, url |-> ScannerUrl, parameters |-> parameters,
     runs |-> runs]
ScannerCalls ==
    {ScannerCall(scanner, parameters, runs) :
        scanner \in Scanners, parameters \in ScannerParameters,
        runs \in SeqsUpTo(ToolRuns, MaxParameters)}
NoScannerCall == ScannerCall("none", <<>>, <<>>)
NoScannerResult == [tool |-> "none", results |-> <<>>]

\* How many tool processes a call starts.
ProcessesStarted(scanner, parameters) ==
    IF parameters # <<>> THEN Len(parameters)
    ELSE IF scanner = "run_tplmap" THEN 0 ELSE 1

ScannerInit ==
    /\ sc_call \in {c \in ScannerCalls :
                      Len(c.runs) = ProcessesStarted(c.scanner, c.parameters)}
    /\ sc_ret = NoScannerResult

\* No scanner is called.
ScannerIdle ==
    /\ sc_call = NoScannerCall
    /\ sc_ret = NoScannerResult

RunSqlmap ==
    /\ sc_call.scanner = "run_sqlmap"
    /\ sc_ret = NoScannerResult
    /\ sc_ret' = run_sqlmap(sc_call.url, sc_call.parameters, sc_call.runs)
    /\ UNCHANGED sc_call

RunXsstrike ==
    /\ sc_call.scanner = "run_xsstrike"
    /\ sc_ret = NoScannerResult
    /\ sc_ret' = run_xsstrike(sc_call.url, sc_call.parameters, sc_call.runs)
    /\ UNCHANGED sc_call

RunTplmap ==
    /\ sc_call.scanner = "run_tplmap"
    /\ sc_ret = NoScannerResult
    /\ sc_ret' = run_tplmap(sc_call.url, sc_call.parameters, sc_call.runs)
    /\ UNCHANGED sc_call

ScannerNext ==
    \/ RunSqlmap /\ UNCHANGED non_scanner_vars
    \/ RunXsstrike /\ UNCHANGED non_scanner_vars
    \/ RunTplmap /\ UNCHANGED non_scanner_vars

(***************************************************************************)
(* SecurityMonitor called by several threads.  It has no lock: a thread    *)
(* can be switched out between any two of the statements of                *)
(* check_rate_limit and log_activity.                                      *)
(***************************************************************************)
\* How many calls the threads make in a behaviour.
MaxMonitorCalls == 4

\* The (principal, class) the threads check, and its key.
RacePair == RatePair("u", "exploit")
RaceKey == RateKey(RacePair.user_id, RacePair.action)

\* A thread's local variables: current_time, the list the comprehension of
\* lines 250-253 built, the slice of line 241.
MonitorLocals(current_time, filtered, sliced) ==
    [current_time |-> current_time, filtered |-> filtered, sliced |-> sliced]
NoLocals == MonitorLocals(0, <<>>, EmptyLog)

\* A log of 1000 entries, and a timestamp older than the window.
FullLog ==
    [runs |-> <<[activity |-> Activity("q", "scan", 0, 0), count |-> 1000]>>,
     len |-> 1000]
ExpiredTimestamp == 0 - 3600

MonitorThreadsInit ==
    /\ now = 0
    /\ ticks = 0
    /\ \E old \in {<<>>, <<ExpiredTimestamp>>} :
           rate_limits = [k \in RateKeys |-> IF k = RaceKey THEN old ELSE <<>>]
    /\ rl_callers = {}
    /\ rl_last = NoCheck
    /\ rl_grants = [p \in RatePairs |-> <<>>]
    /\ rl_denied = {}
    /\ suspicious_activities \in {EmptyLog, FullLog}
    /\ arrivals = suspicious_activities
    /\ bursts = 0
    /\ suspicious = NoDetect
    /\ mpc = [t \in Threads |-> "idle"]
    /\ mlocal = [t \in Threads |-> NoLocals]
    /\ mcalls = 0
    /\ mgranted = 0

\* No thread calls the monitor.
MonitorThreadsIdle ==
    /\ mpc = [t \in Threads |-> "idle"]
    /\ mlocal = [t \in Threads |-> NoLocals]
    /\ mcalls = 0
    /\ mgranted = 0

\* check_rate_limit, lines 243-248: the call reads the clock and finds (or
\* makes) the key's list.
CallCheckRateLimit(t) ==
    /\ mpc[t] = "idle"
    /\ mcalls < MaxMonitorCalls
    /\ mcalls' = mcalls + 1
    /\ mlocal' = [mlocal EXCEPT ![t] = MonitorLocals(now, <<>>, EmptyLog)]
    /\ mpc' = [mpc EXCEPT ![t] = "filter"]
    /\ UNCHANGED <<rate_limits, suspicious_activities, arrivals, mgranted>>

\* Lines 250-253, the right-hand side: the comprehension reads the list.
FilterTimestamps(t) ==
    /\ mpc[t] = "filter"
    /\ mlocal' = [mlocal EXCEPT ![t].filtered =
                     Retained(rate_limits[RaceKey], mlocal[t].current_time)]
    /\ mpc' = [mpc EXCEPT ![t] = "store"]
    /\ UNCHANGED <<rate_limits, suspicious_activities, arrivals, mcalls, mgranted>>

\* Lines 250-253, the assignment: the key gets the list that was built.
StoreTimestamps(t) ==
    /\ mpc[t] = "store"
    /\ rate_limits' = [rate_limits EXCEPT ![RaceKey] = mlocal[t].filtered]
    /\ mpc' = [mpc EXCEPT ![t] = "compare"]
    /\ UNCHANGED <<mlocal, suspicious_activities, arrivals, mcalls, mgranted>>

\* Lines 261-264: the length is compared with the limit; False is returned
\* at the limit.
CompareWithLimit(t) ==
    /\ mpc[t] = "compare"
    /\ mpc' = [mpc EXCEPT ![t] =
                  IF Len(rate_limits[RaceKey]) >= max_requests(RacePair.action)
                  THEN "idle" ELSE "append"]
    /\ UNCHANGED <<rate_limits, mlocal, suspicious_activities, arrivals,
                   mcalls, mgranted>>

\* Lines 266-267: the timestamp is appended and True returned.
AppendTimestamp(t) ==
    /\ mpc[t] = "append"
    /\ rate_limits' = [rate_limits EXCEPT ![RaceKey] =
                          Append(@, mlocal[t].current_time)]
    /\ mgranted' = mgranted + 1
    /\ mpc' = [mpc EXCEPT ![t] = "idle"]
    /\ UNCHANGED <<mlocal, suspicious_activities, arrivals, mcalls>>

\* log_activity, lines 231-238: the entry is made and appended.
CallLogActivity(t) ==
    /\ mpc[t] = "idle"
    /\ mcalls < MaxMonitorCalls
    /\ mcalls' = mcalls + 1
    /\ LET activity == Activity("p", "scan", t, now) IN
        /\ suspicious_activities' = append(suspicious_activities, activity)
        /\ arrivals' = append(arrivals, activity)
    /\ mlocal' = [mlocal EXCEPT ![t] = MonitorLocals(now, <<>>, EmptyLog)]
    /\ mpc' = [mpc EXCEPT ![t] = "log_test"]
    /\ UNCHANGED <<rate_limits, mgranted>>

\* Line 240: the length is tested.
TestLogLength(t) ==
    /\ mpc[t] = "log_test"
    /\ mpc' = [mpc EXCEPT ![t] =
                  IF suspicious_activities.len > 1000 THEN "log_slice" ELSE "idle"]
    /\ UNCHANGED <<rate_limits, mlocal, suspicious_activities, arrivals,
                   mcalls, mgranted>>

\* Line 241, the right-hand side: the slice is taken.
SliceLog(t) ==
    /\ mpc[t] = "log_slice"
    /\ mlocal' = [mlocal EXCEPT ![t].sliced = Trimmed(suspicious_activities)]
    /\ mpc' = [mpc EXCEPT ![t] = "log_store"]
    /\ UNCHANGED <<rate_limits, suspicious_activities, arrivals, mcalls, mgranted>>

\* Line 241, the assignment.
StoreLog(t) ==
    /\ mpc[t] = "log_store"
    /\ suspicious_activities' = mlocal[t].sliced
    /\ mpc' = [mpc EXCEPT ![t] = "idle"]
    /\ UNCHANGED <<rate_limits, mlocal, arrivals, mcalls, mgranted>>

MonitorThreadsNext ==
    \/ \E t \in Threads : CallCheckRateLimit(t) /\ UNCHANGED non_mthreads_vars
    \/ \E t \in Threads : FilterTimestamps(t) /\ UNCHANGED non_mthreads_vars
    \/ \E t \in Threads : StoreTimestamps(t) /\ UNCHANGED non_mthreads_vars
    \/ \E t \in Threads : CompareWithLimit(t) /\ UNCHANGED non_mthreads_vars
    \/ \E t \in Threads : AppendTimestamp(t) /\ UNCHANGED non_mthreads_vars
    \/ \E t \in Threads : CallLogActivity(t) /\ UNCHANGED non_mthreads_vars
    \/ \E t \in Threads : TestLogLength(t) /\ UNCHANGED non_mthreads_vars
    \/ \E t \in Threads : SliceLog(t) /\ UNCHANGED non_mthreads_vars
    \/ \E t \in Threads : StoreLog(t) /\ UNCHANGED non_mthreads_vars

(***************************************************************************)
(* Specifications.                                                         *)
(***************************************************************************)
MonitorIdle == ClockInit /\ RateIdle /\ ActivityInit /\ MonitorThreadsIdle
\* The components nobody calls in a specification of one component.
OthersIdle ==
    PentestIdle /\ MonitorIdle /\ ValidatorIdle /\ SandboxIdle /\ ScannerIdle
Init == ScanInit /\ LimiterInit /\ OthersIdle
Next ==
    \/ ScanNext
    \/ LimiterNext
    \/ RateNext
    \/ ActivityNext
    \/ ValidatorNext
    \/ SandboxNext
    \/ PentestNext
    \/ ScannerNext
    \/ MonitorThreadsNext
Spec == Init /\ [][Next]_vars

\* One run of execute_intelligent_scan.  The coroutine is awaited to its
\* end and every collaborator it awaits returns or raises.
ScanSpec == Init /\ [][ScanNext]_vars
ScanFairSpec == ScanSpec /\ WF_vars(ScanNext)

\* Threads calling into one ProcessLimiter.  A thread that can take the lock
\* infinitely often gets it, and a thread inside a with block runs on.
LimiterOnlyInit == ScanIdle /\ LimiterInit /\ OthersIdle
LimiterSpec == LimiterOnlyInit /\ [][LimiterNext]_vars
LimiterFairSpec == LimiterSpec /\ \A t \in Threads : SF_vars(LimiterProgress(t))

\* Callers of one SecurityMonitor's check_rate_limit, one call after the other.
RateOnlyInit ==
    /\ ScanIdle /\ PentestIdle /\ LimiterInit /\ ValidatorIdle /\ SandboxIdle
    /\ ScannerIdle
    /\ ClockInit /\ RateInit /\ ActivityInit /\ MonitorThreadsIdle
RateSpec == RateOnlyInit /\ [][RateNext]_vars

\* Callers of one SecurityMonitor's log_activity and
\* detect_suspicious_behavior, one call after the other.
ActivityOnlyInit ==
    /\ ScanIdle /\ PentestIdle /\ LimiterInit /\ ValidatorIdle /\ SandboxIdle
    /\ ScannerIdle
    /\ ClockInit /\ RateIdle /\ ActivityInit /\ MonitorThreadsIdle
ActivitySpec == ActivityOnlyInit /\ [][ActivityNext]_vars

\* A caller of one method of a SecurityValidator.
ValidatorOnlyInit ==
    /\ ScanIdle /\ PentestIdle /\ LimiterInit /\ MonitorIdle /\ SandboxIdle
    /\ ScannerIdle /\ ValidatorInit
ValidatorSpec == ValidatorOnlyInit /\ [][ValidatorNext]_vars

\* Callers of one DockerSandbox's execute_tool_safely, one call after the
\* other, and the process groups its calls leave behind.
SandboxOnlyInit ==
    /\ ScanIdle /\ PentestIdle /\ LimiterInit /\ MonitorIdle /\ ValidatorIdle
    /\ ScannerIdle /\ SandboxInit
SandboxSpec == SandboxOnlyInit /\ [][SandboxNext]_vars

\* One ai_pentest request: the plan is asked for and, when there is one, run
\* by execute_intelligent_scan to its end.
PentestOnlyInit ==
    /\ PentestInit /\ LimiterInit /\ MonitorIdle /\ ValidatorIdle /\ SandboxIdle
    /\ ScannerIdle
PentestSpec == PentestOnlyInit /\ [][PentestNext]_vars

\* A caller of one method of an AdvancedScanner.
ScannerOnlyInit ==
    /\ ScanIdle /\ PentestIdle /\ LimiterInit /\ MonitorIdle /\ ValidatorIdle
    /\ SandboxIdle /\ ScannerInit
ScannerSpec == ScannerOnlyInit /\ [][ScannerNext]_vars

\* Threads calling one SecurityMonitor's check_rate_limit and log_activity,
\* switched between any two statements.
MonitorThreadsOnlyInit ==
    /\ ScanIdle /\ PentestIdle /\ LimiterInit /\ ValidatorIdle /\ SandboxIdle
    /\ ScannerIdle /\ MonitorThreadsInit
MonitorThreadsSpec == MonitorThreadsOnlyInit /\ [][MonitorThreadsNext]_vars

(***************************************************************************)
(* Properties of execute_intelligent_scan.                                 *)
(***************************************************************************)
\* The run was ended by a decision with stop_scanning = true.
Stopped == ai_decisions # <<>> /\ Last(ai_decisions).stop_scanning

\* The steps the loop has taken up: each leaves at least one record.
StepsExecuted == {step_results[n].step_number : n \in 1..Len(step_results)}

\* The configured maximum total step count the loop is said to enforce.
MaxTotalSteps == 3

\* C1: when the decision for step k is the first to set stop_scanning, no
\* step after k is dispatched to a tool, exactly k step records exist from
\* then on, and the run is at (or past) the final assessment.
C1_StopAtStepK ==
    Stopped =>
        LET k == Last(ai_decisions).step_number IN
        /\ \A n \in 1..Len(dispatched) : dispatched[n].step_number <= k
        /\ Len(step_results) = k
        /\ pc \in {"final", "done"}

\* C1, the parts the code keeps: no step after k is dispatched or recorded,
\* and the run is at (or past) the final assessment.
C1_StopEndsLoop ==
    Stopped =>
        LET k == Last(ai_decisions).step_number IN
        /\ \A n \in 1..Len(dispatched) : dispatched[n].step_number <= k
        /\ \A n \in 1..Len(step_results) : step_results[n].step_number <= k
        /\ pc \in {"final", "done"}

\* C2: a dynamically appended step never has the tool of a step that was in
\* the plan before it, and under the policy "stop=false with one next action
\* naming a tool already in the plan" the plan keeps its initial step count.
C2_NoDuplicateAppend ==
    /\ \A j \in (initial_steps + 1)..Len(plan) :
           \A m \in 1..(j - 1) : plan[m].tool # plan[j].tool
    /\ dup_policy => Len(plan) = initial_steps

\* C2 witness: a 2-step plan has run to its end under the duplicate-only
\* policy, with a decision after each of its steps.
C2_Witness ==
    /\ pc = "done"
    /\ dup_policy
    /\ initial_steps = 2
    /\ Len(ai_decisions) = 2

\* C3: the number of steps executed in one run never exceeds the configured
\* maximum total step count.
C3_StepCeiling == Cardinality(StepsExecuted) <= MaxTotalSteps

C5_DefaultDecisionContinues ==
    [][(Len(ai_decisions') = Len(ai_decisions) + 1 /\ Last(ai_decisions').error)
        => /\ ~Last(ai_decisions').stop_scanning
           /\ Last(ai_decisions').next_actions = 0
           /\ plan' = plan
           /\ step_results' = step_results
           /\ pc' = "loop"
           /\ i' = i + 1]_vars

\* C5 witness: the decision of the step just taken was the failure default
\* and the loop is about to take the next planned step.
C5_Witness ==
    /\ ai_decisions # <<>>
    /\ Last(ai_decisions).error
    /\ Last(ai_decisions).step_number = i
    /\ pc = "loop"
    /\ i < Len(plan)

\* C6: no tool is dispatched for a step whose target fails validate_target.
C6_ValidatorGatesDispatch ==
    \A n \in 1..Len(dispatched) : validate_target(dispatched[n].url)

(***************************************************************************)
(* Properties of ProcessLimiter.                                           *)
(***************************************************************************)
\* The thread is inside start_process (can_execute called from it included).
InStartProcess(t) ==
    \/ lpc[t] \in {"start_process_lock", "start_process_body"}
    \/ lpc[t] \in {"can_execute_lock", "can_execute_body"}
           /\ lcaller[t] = "start_process"

\* C7: every principal's in-flight counter is within [0, max_processes].
C7_CounterWithinCeiling ==
    \A u \in Users : active_processes[u] \in 0..max_processes

\* C7 witness: calls of different threads for one principal interleave: one
\* thread is inside start_process holding the lock, after another thread has
\* finished an end_process for the same principal.
C7_Witness ==
    \E t1, t2 \in Threads :
        /\ t1 # t2
        /\ InStartProcess(t1)
        /\ lock = t1
        /\ lpc[t2] = "idle"
        /\ lret[t2] = "None"
        /\ luser[t1] = luser[t2]

\* C8: start_process never blocks: a thread inside it can always take its
\* next step, unless another thread is inside a with block at that moment.
C8_StartProcessNeverBlocks ==
    \A t \in Threads :
        InStartProcess(t) =>
            (ENABLED LimiterProgress(t)) \/ lock \notin {NoOwner, t}

\* C9: a call of start_process that takes effect while the principal's
\* counter is below max_processes returns true.
C9_AdmitsBelowCeiling ==
    \A t \in Threads :
        (InStartProcess(t) /\ lock = t
            /\ active_processes[luser[t]] < max_processes)
        ~> (lpc[t] = "idle" /\ lret[t] = "True")

(***************************************************************************)
(* Properties of SecurityMonitor.                                          *)
(***************************************************************************)
\* The granted checks of a pair that lie in the trailing hour.
GrantsInWindow(p) == SelectSeq(rl_grants[p], LAMBDA t : now - t < 3600)

\* C11: a check_rate_limit call for a (principal, class) with class ceiling L
\* returns false when L of its checks were granted within the trailing hour,
\* and returns true when the hour has elapsed since every grant recorded for
\* its key.
C11_RateLimitWindow ==
    [][rl_last' # rl_last =>
        LET p == RatePair(rl_last'.user_id, rl_last'.action) IN
        /\ Len(GrantsInWindow(p)) >= max_requests(p.action) => ~rl_last'.ret
        /\ (\A q \in RatePairs :
                RateKey(q.user_id, q.action) = RateKey(p.user_id, p.action)
                    => GrantsInWindow(q) = <<>>)
               => rl_last'.ret]_vars

\* C11 witness: a principal's scan checks were granted up to the ceiling of
\* 10 and then refused, and a check an hour after those grants is granted.
C11_Witness ==
    /\ rl_last = [user_id |-> "u", action |-> "scan", time |-> now, ret |-> TRUE]
    /\ RatePair("u", "scan") \in rl_denied
    /\ now >= 3600
    /\ rl_grants[RatePair("u", "scan")] = <<now>>

\* The grants of a pair within the hour that ends at its latest grant.
GrantsInLatestHour(p) ==
    LET g == rl_grants[p] IN
    SelectSeq(g, LAMBDA t : g[Len(g)] - t < 3600)

\* C12: for every (principal, class) the checks granted within an hour never
\* exceed the class ceiling, and the list of timestamps retained for its key
\* never holds more than that ceiling.
C12_CeilingPerPair ==
    \A p \in rl_callers :
        /\ Len(GrantsInLatestHour(p)) <= max_requests(p.action)
        /\ Len(rate_limits[RateKey(p.user_id, p.action)]) <= max_requests(p.action)

\* C12, the part the code keeps: the checks granted to a (principal, class)
\* within an hour never exceed the class ceiling.
C12_GrantsWithinCeiling ==
    \A p \in rl_callers :
        Len(GrantsInLatestHour(p)) <= max_requests(p.action)

\* The user's entries among all that arrived in the trailing 300 seconds.
LoggedRecently(user_id) == recent_activities(arrivals.runs, user_id, now)
\* The user's entries the list still holds from the trailing 300 seconds.
HeldRecently(user_id) ==
    SelectSeq(suspicious_activities.runs,
              LAMBDA r : r.activity.user_id = user_id
                         /\ r.activity.timestamp > now - 300)
\* More than 50 events, or more than 10 distinct targets.
Anomalous(runs) ==
    \/ Entries(runs) >= 51
    \/ Cardinality({runs[j].activity.target : j \in 1..Len(runs)}) >= 11

\* C13: detect_suspicious_behavior(p) returns true exactly when, among the
\* activities p logged in the trailing 300 seconds, there are more than 50
\* events or more than 10 distinct targets, whatever p and the other
\* principals logged.
C13_DetectsLoggedActivity ==
    [][suspicious' # suspicious =>
        suspicious'.ret = Anomalous(LoggedRecently(suspicious'.user_id))]_vars

\* C13 as amended: detect_suspicious_behavior(p) returns true exactly when,
\* among the activities of p that the activity log still holds from the
\* trailing 300 seconds, there are more than 50 events or more than 10
\* distinct targets; these are all that p logged in that time whenever the
\* log still holds everything that arrived in it.
C13_DetectsHeldActivity ==
    [][suspicious' # suspicious =>
        /\ suspicious'.ret = Anomalous(HeldRecently(suspicious'.user_id))
        /\ suspicious_activities = arrivals
               => suspicious'.ret = Anomalous(LoggedRecently(suspicious'.user_id))]_vars

\* C13 witness: a principal whose 11 entries on 11 targets are in the log is
\* reported, after another principal with 5 entries on one target was not.
C13_Witness ==
    /\ suspicious = [user_id |-> "p", time |-> now, ret |-> TRUE]
    /\ Entries(HeldRecently("p")) = 11
    /\ Entries(HeldRecently("q")) = 5
    /\ ~Anomalous(HeldRecently("q"))

\* C14: after n log_activity calls the activity log holds exactly the most
\* recent min(n, 1000) entries in arrival order.
C14_KeepsLatest1000 ==
    /\ suspicious_activities.len = Min(arrivals.len, 1000)
    /\ suspicious_activities.runs = LastRuns(arrivals.runs, Min(arrivals.len, 1000))

\* C14 as amended: after n log_activity calls the activity log holds the most
\* recent k entries in arrival order, for a k that is n while n <= 1000 and
\* is from 500 to 1000 afterwards.
C14_KeepsLatest ==
    /\ suspicious_activities.len = Entries(suspicious_activities.runs)
    /\ suspicious_activities.runs =
           LastRuns(arrivals.runs, suspicious_activities.len)
    /\ suspicious_activities.len <= 1000
    /\ arrivals.len <= 1000 => suspicious_activities.len = arrivals.len
    /\ arrivals.len > 1000 => suspicious_activities.len >= 500

\* C14 witness: more than 1000 entries arrived, the log was cut and then
\* grew again, and holds fewer than 1000 entries.
C14_Witness ==
    /\ arrivals.len > 1000
    /\ suspicious_activities.len > 500
    /\ suspicious_activities.len < 1000

(***************************************************************************)
(* Properties of SecurityValidator.                                        *)
(***************************************************************************)
\* C15: validate_target rejects every URL whose host is, or resolves to, a
\* loopback, private (10/8, 172.16/12, 192.168/16) or link-local
\* (169.254/16) address, whether the host is an IP literal or a hostname.
C15_RejectsInternalHosts ==
    (v_call.op = "validate_target" /\ v_rets # <<>>
        /\ v_call.url.class \in {"loopback", "private", "link_local"})
    => ~v_rets[1].ok

\* C15, the part the code keeps: a URL whose host is written as an address
\* literal that ipaddress parses, of such an address, is rejected.
C15_RejectsInternalLiterals ==
    (v_call.op = "validate_target" /\ v_rets # <<>> /\ v_call.url.literal
        /\ v_call.url.class \in {"loopback", "private", "link_local"})
    => ~v_rets[1].ok

\* C16: validate_command returns false for every command that contains an
\* entry of blocked_commands in any letter case.
C16_CaseInsensitiveDenylist ==
    (v_call.op = "validate_command" /\ v_rets # <<>>)
    => \A e \in blocked_commands :
           Contains(lower(v_call.command), lower(e)) => ~v_rets[1].ok

\* The texts of a returned map: its str values and its list items.
TextsOf(params) ==
    {params[key].text : key \in {k \in DOMAIN params : params[k].kind = "str"}}
        \cup UNION {{params[key].items[j].text : j \in 1..Len(params[key].items)} :
                       key \in {k \in DOMAIN params : params[k].kind = "list"}}

\* C17: sanitising a sanitised parameter map gives the same map, and no
\* removed character (< > " ' or a control character) is in any string
\* value or list item of a sanitised map.
C17_SanitiseIdempotent ==
    v_call.op = "validate_parameters" =>
        /\ Len(v_rets) = 2 => v_rets[2].params = v_rets[1].params
        /\ \A n \in 1..Len(v_rets) :
               /\ DOMAIN v_rets[n].params = DOMAIN v_call.params
               /\ \A key \in DOMAIN v_rets[n].params :
                      v_rets[n].params[key].kind = "list" =>
                          \A j \in 1..Len(v_rets[n].params[key].items) :
                              v_rets[n].params[key].items[j].kind = "str"
               /\ \A t \in TextsOf(v_rets[n].params) :
                      /\ Len(t) <= 1000
                      /\ \A j \in 1..Len(t) : t[j] \notin QuoteChars \cup ControlChars

\* C17 witness: a map with a string of more than 1000 characters that
\* begins with a removed character was sanitised twice; the first pass
\* removed and cut, the second changed nothing.
C17_Witness ==
    /\ v_call.op = "validate_parameters"
    /\ Len(v_rets) = 2
    /\ "url" \in DOMAIN v_call.params
    /\ v_call.params["url"].kind = "str"
    /\ Len(v_call.params["url"].text) = 1002
    /\ v_call.params["url"].text[1] = "<"
    /\ Len(v_rets[1].params["url"].text) = 1000
    /\ v_rets[2] = v_rets[1]

(***************************************************************************)
(* DockerSandbox: the claims.                                              *)
(***************************************************************************)
\* The call of execute_tool_safely this step makes returned a record.
Returned == Len(sb_records') = Len(sb_records) + 1

\* C18: for a tool identifier outside the allow-list of the active mode,
\* execute_tool_safely returns a record with success = false and launches no
\* process and no container.  (Violated: both builders answer an unknown
\* identifier with an echo command that carries the identifier, the command
\* is run, and the record has success = true.)
C18_RejectsUnknownTools ==
    [][(Returned /\ Last(sb_records').tool \notin AllowList(client))
        => /\ ~Last(sb_records').success
           /\ launched' = launched]_vars

\* C19: when execute_tool_safely returns a record flagged as a timeout, no
\* process of the group the call started is still alive, whatever the probe
\* does with the termination signal.  (Violated: one SIGTERM is sent to the
\* group and the record is returned without waiting for it.)
C19_NoProcessOutlivesTimeout ==
    [][(Returned /\ Last(sb_records').kind = "timeout")
        => /\ Len(launched') = Len(launched) + 1
           /\ Last(launched').state = "exited"]_vars

\* C20: the mode chosen at construction never changes, and every record that
\* execute_tool_safely returned carries sandboxed = true when there is a
\* client and sandboxed = false when there is none.
C20_ModeFixedAndFlagged ==
    [][/\ client' = client
       /\ \A n \in 1..Len(sb_records') :
              sb_records'[n].sandboxed = (client' = "docker")]_vars

\* C20: without a client, one call returned a command's output and another
\* timed out.
C20_Witness ==
    /\ client = "None"
    /\ \E m, n \in 1..Len(sb_records) :
        /\ sb_records[m].success
        /\ sb_records[n].kind = "timeout"

(***************************************************************************)
(* Properties of _ai_pentest.                                              *)
(***************************************************************************)
\* C21: when analyze_and_plan reports that no plan could be had, the request
\* runs the fallback plan (full_recon, then vulnerability_scan) and is
\* answered with the final report.  (Violated: _ai_pentest answers at once
\* with the planning error; execute_intelligent_scan is never entered.)
C21_FallbackPlanExecuted ==
    (request = "returned" /\ planned.error) =>
        /\ response.kind = "final_report"
        /\ SubSeq(plan, 1, initial_steps) = _create_fallback_plan
        /\ response.final_assessment # "empty"

(***************************************************************************)
(* Properties of AdvancedScanner.                                          *)
(***************************************************************************)
\* What a scanner is said to look for, and the finding it is said to make.
Signatures(scanner) ==
    CASE scanner = "run_sqlmap" -> {MightBeInjectable, ParameterColon}
      [] scanner = "run_xsstrike" -> {XSS, vulnerable}
      [] scanner = "run_tplmap" -> {SSTI, TemplateInjection}
FindingType(scanner) ==
    CASE scanner = "run_sqlmap" -> "SQLi"
      [] scanner = "run_xsstrike" -> "XSS"
      [] scanner = "run_tplmap" -> "SSTI"
FindingRisk(scanner) ==
    CASE scanner = "run_sqlmap" -> "Critical"
      [] scanner = "run_xsstrike" -> "Medium"
      [] scanner = "run_tplmap" -> "High"

\* C22: for every scanner call that has returned, with or without a
\* parameter list, each tool output that contains one of the scanner's
\* signatures has a finding in the results with vulnerable = true, the
\* scanner's vulnerability type and its risk level.  (Violated: without
\* parameters run_sqlmap looks for "might be injectable" only, run_xsstrike
\* for "XSS" only, and run_tplmap runs nothing.)
C22_SignatureYieldsFinding ==
    sc_ret # NoScannerResult =>
        \A j \in 1..Len(sc_call.runs) :
            (/\ sc_call.runs[j].kind = "completed"
             /\ \E sig \in Signatures(sc_call.scanner) :
                    Contains(sc_call.runs[j].stdout, sig))
            => \E n \in 1..Len(sc_ret.results) :
                /\ sc_ret.results[n].vulnerable
                /\ sc_ret.results[n].vulnerability_type = FindingType(sc_call.scanner)
                /\ sc_ret.results[n].risk_level = FindingRisk(sc_call.scanner)
                /\ sc_ret.results[n].parameter =
                       IF sc_call.parameters = <<>> THEN Absent
                       ELSE sc_call.parameters[j]

(***************************************************************************)
(* Properties of a run within an ai_pentest request.                       *)
(***************************************************************************)
\* The loop takes up step i + 1 and the step fails before a result is
\* there: the tool raised, its name is unknown, or its params take no item.
StepFailed ==
    /\ pc = "loop"
    /\ Len(step_results') = Len(step_results) + 1
    /\ Last(step_results').kind = "error"

\* C23: a step whose tool execution raises does not abort the run: one
\* record with the step's number, its tool and the error's text is appended,
\* the plan and the decisions are left as they are and the loop goes on with
\* the next step; a run that no decision stopped ends with every step of
\* the plan recorded, in plan order.
C23_FailureRecordedRunContinues ==
    [][/\ StepFailed =>
            /\ step_results' = Append(step_results, Last(step_results'))
            /\ Last(step_results').step_number = i + 1
            /\ Last(step_results').tool = plan[i + 1].tool
            /\ Last(step_results').error \in
                   {str_e(e) : e \in ToolExceptions
                        \cup {UnknownTool(plan[i + 1].tool), ItemAssignment}}
            /\ plan' = plan
            /\ ai_decisions' = ai_decisions
            /\ pc' = "loop"
            /\ i' = i + 1
       /\ (pc' \in {"final", "done"} /\ ~Stopped')
            => StepsExecuted' = 1..Len(plan')
       /\ \A m, n \in 1..Len(step_results') :
            m < n => step_results'[m].step_number <= step_results'[n].step_number]_vars

\* C23 witness: the tool of step 1 raised, step 2 was executed after it, and
\* the run has ended.
C23_Witness ==
    /\ pc = "done"
    /\ Len(step_results) >= 2
    /\ step_results[1].kind = "error"
    /\ step_results[1].error = "scan failed"
    /\ Len(dispatched) >= 2
    /\ dispatched[2].step_number = 2

\* C24: when a run ends, ai_decisions holds one decision per executed step,
\* in execution order, steps that failed included.  (Violated: a step whose
\* tool raised gets an error record and no decision.)
C24_DecisionPerStep ==
    pc \in {"final", "done"} =>
        /\ Len(ai_decisions) = Cardinality(StepsExecuted)
        /\ \A n \in 1..Len(ai_decisions) : ai_decisions[n].step_number = n

(***************************************************************************)
(* DockerSandbox: what a call leaves behind.                               *)
(***************************************************************************)
\* C25: with a client, when a call of execute_tool_safely has returned, on
\* whatever path, the temporary input file it created no longer exists and
\* no container it started is left.  (Violated: when json.dump raises, the
\* file is left; os.unlink is in the finally of a try entered only after the
\* file was written.)
C25_NothingLeftBehind ==
    client = "docker" =>
        /\ \A n \in 1..Len(staged) : staged[n] = "unlinked"
        /\ \A n \in 1..Len(launched) : launched[n].state = "removed"

(***************************************************************************)
(* ProcessLimiter: a release without an admit.                             *)
(***************************************************************************)
\* C26: an end_process call for a principal whose counter is zero or absent
\* is signalled to its caller: it does not return as if it had released an
\* execution.  (Violated: the call finds no key, does nothing and returns
\* None.)
C26_ReleaseWithoutAdmitSignalled ==
    [][\A t \in Threads :
        (/\ lpc[t] = "end_process_body"
         /\ active_processes[luser[t]] = 0
         /\ lpc'[t] = "idle")
        => lret'[t] = "raised"]_vars

(***************************************************************************)
(* Properties of SecurityMonitor under concurrent callers.                 *)
(***************************************************************************)
\* C27: however the threads' statements interleave, the checks granted to
\* the pair within the window do not exceed its ceiling, every granted
\* timestamp of the window is in the key's list, and the log holds the
\* latest arrivals with none missing.  (Violated: two threads compare before
\* either appends; a thread stores a list it filtered before another
\* appended.)
C27_MonitorSafeUnderThreads ==
    /\ mgranted <= max_requests(RacePair.action)
    /\ Len(Retained(rate_limits[RaceKey], now)) = mgranted
    /\ suspicious_activities.runs =
           LastRuns(arrivals.runs, suspicious_activities.len)

(***************************************************************************)
(* Properties of the order of a run's steps.                               *)
(***************************************************************************)
\* Whether step number m has a record in step_results / in ai_decisions.
HasRecord(m) == \E k \in 1..Len(step_results) : step_results[k].step_number = m
ToolReturned(m) ==
    \E k \in 1..Len(step_results) :
        step_results[k].step_number = m /\ step_results[k].kind = "result"
HasDecision(m) == \E k \in 1..Len(ai_decisions) : ai_decisions[k].step_number = m

\* C28: steps run one at a time in plan order.  A tool is dispatched only at
\* the head of the loop, for the step after the ones handled so far; every
\* step dispatched before it has a lower number and a record (it returned
\* or raised), and when it returned its decision is recorded.  The plan is
\* a run was given is extended only while a returned step is analysed, with
\* its decision, and never while a tool is being dispatched.
C28_OneStepAtATime ==
    [][/\ dispatched' # dispatched =>
            /\ pc = "loop"
            /\ Len(dispatched') = Len(dispatched) + 1
            /\ SubSeq(dispatched', 1, Len(dispatched)) = dispatched
            /\ Last(dispatched').step_number = i + 1
            /\ Last(dispatched').tool = plan[i + 1].tool
            /\ \A n \in 1..Len(dispatched) :
                   LET m == dispatched[n].step_number IN
                   /\ m < i + 1
                   /\ HasRecord(m)
                   /\ ToolReturned(m) => HasDecision(m)
       /\ pc' = "analyze" =>
            /\ Last(dispatched').step_number = i' + 1
            /\ \A k \in 1..Len(ai_decisions') :
                   ai_decisions'[k].step_number # i' + 1
       /\ (request = "scanning" /\ plan' # plan) =>
            /\ pc = "analyze"
            /\ dispatched' = dispatched
            /\ Len(ai_decisions') = Len(ai_decisions) + 1
            /\ Last(ai_decisions').step_number = i + 1
      ]_vars

\* C28 witness: a step added during the run has been dispatched, after an
\* initial step that returned and whose decision proposed it.
C28_Witness ==
    /\ Len(dispatched) >= 2
    /\ Last(dispatched).step_number > initial_steps
    /\ ToolReturned(1)
    /\ ai_decisions # <<>>
    /\ ai_decisions[1].next_actions > 0

C30_UrlIsTargetUrl ==
    \A n \in 1..Len(dispatched) : dispatched[n].url = target_url

\* C30 witness: a step whose own params named another url has been
\* dispatched, and so has a step added during the run.
C30_Witness ==
    /\ \E n \in 1..Len(dispatched) :
           LET own == plan[dispatched[n].step_number].params.url IN
           own # NoUrl /\ own # target_url
    /\ \E n \in 1..Len(dispatched) : dispatched[n].step_number > initial_steps

(***************************************************************************)
(* ProcessLimiter: what the map holds.                                     *)
(***************************************************************************)
\* C31: the map never holds a zero or negative counter: every key it has
\* holds a value in 1..max_processes, and a principal whose counter is zero
\* has no key.
C31_NoZeroCounterStored ==
    /\ \A u \in ap_keys : active_processes[u] \in 1..max_processes
    /\ \A u \in Users : active_processes[u] = 0 => u \notin ap_keys

\* C31 witness: an end_process call for a principal has returned and left
\* no key for it, and a start_process call for that principal is under way.
C31_Witness ==
    \E t1, t2 \in Threads :
        /\ t1 # t2
        /\ lpc[t1] = "idle"
        /\ lret[t1] = "None"
        /\ InStartProcess(t2)
        /\ luser[t1] = luser[t2]
        /\ luser[t1] \notin ap_keys

(***************************************************************************)
(* Properties of a run's records.                                          *)
(***************************************************************************)
\* C32: step_results is append-only and, when a run has ended, holds one
\* record per executed step: the step numbers of its records are 1, 2, ...
\* in order, none repeated.  (Violated: a step whose next_actions make the
\* loop of lines 94-104 raise gets a result record and an error record.)
C32_OneRecordPerStep ==
    pc = "done" =>
        [n \in 1..Len(step_results) |-> step_results[n].step_number]
            = [n \in 1..Len(step_results) |-> n]

(***************************************************************************)
(* SecurityMonitor: independence of the callers.                           *)
(***************************************************************************)
\* C33: a check_rate_limit call for one (principal, class) changes the
\* outcome of no later check for a different pair: whatever a check for
\* another pair would return now, or just under or at an hour from now, it
\* returns the same after the call as before it.  (Violated: pairs whose
\* texts join to one key share its list.)
C33_PairsIndependent ==
    [][rl_last' # rl_last =>
        \A q \in RatePairs :
            q # RatePair(rl_last'.user_id, rl_last'.action) =>
                \A dt \in {0, 3599, 3600} :
                    check_rate_limit(rate_limits', q.user_id, q.action,
                                     now + dt).ret
                        = check_rate_limit(rate_limits, q.user_id, q.action,
                                           now + dt).ret
      ]_vars

(***************************************************************************)
(* Properties of the plan under the decisions.                             *)
(***************************************************************************)
\* C34: the step at which a decision sets stop_scanning leaves the plan as
\* it was, whatever next actions that decision proposes, and the plan stays
\* so for the rest of the run.
C34_StopDiscardsNextActions ==
    [][/\ (/\ request = "scanning"
            /\ Len(ai_decisions') = Len(ai_decisions) + 1
            /\ Last(ai_decisions').stop_scanning)
           => (plan' = plan /\ pc' = "final")
       /\ (request = "scanning" /\ Stopped) => plan' = plan
      ]_vars

\* C34 witness: a run has ended on a stopping decision that proposed next
\* actions, with the plan as long as it was given.
C34_Witness ==
    /\ pc = "done"
    /\ Stopped
    /\ Last(ai_decisions).next_actions = MaxActions
    /\ Len(plan) = initial_steps
    /\ initial_steps >= 1

\* The tool names the claim lists.
ListedTools ==
    {"full_recon", "vulnerability_scan", "sqlmap_scan", "xss_scan", "ssti_scan"}

InitialStepTools == {plan[j].tool : j \in 1..initial_steps}
AppendedSteps == (initial_steps + 1)..Len(plan)

\* C36: the plan grows by distinct tool names only.  No two appended steps
\* have one tool, no appended step has the tool of an initial step, so the
\* appended steps are at most as many as the proposed tool names the initial
\* plan lacks; and a decision that proposes one tool twice adds it at most
\* once (not at all when the plan has it).
C36_GrowthByDistinctTools ==
    /\ \A a, b \in AppendedSteps : plan[a].tool = plan[b].tool => a = b
    /\ \A a \in AppendedSteps :
           plan[a].tool \in ProposedTools \ InitialStepTools
    /\ Len(plan) - initial_steps
           <= Cardinality(ProposedTools \ InitialStepTools)
    /\ (request = "scanning" /\ pc = "analyze") =>
           \A t \in ProposedTools :
               LET twice == <<NextAction(t, TRUE), NextAction(t, TRUE)>>
                   grown == ApplyNextActions(plan, twice).plan
               IN  Len(grown) = Len(plan)
                       + (IF \E j \in 1..Len(plan) : plan[j].tool = t
                          THEN 0 ELSE 1)

\* C36 witness: a run has appended a step for every proposed tool name its
\* initial plan lacked, two of them.
C36_Witness ==
    /\ request = "scanning"
    /\ initial_steps >= 1
    /\ Len(plan) - initial_steps = Cardinality(ProposedTools \ InitialStepTools)
    /\ Len(plan) - initial_steps = 2

\* C37: a refused check adds no timestamp: it leaves for the key the
\* timestamps of the window and nothing else, so it changes the outcome of
\* no later check of the pair; and when the key holds exactly the ceiling's
\* number of timestamps, the pair is admitted again 3600 seconds after the
\* oldest of them and not a second earlier.
C37_DeniedConsumesNoQuota ==
    [][(rl_last' # rl_last /\ ~rl_last'.ret) =>
        LET user_id == rl_last'.user_id
            action == rl_last'.action
            key == RateKey(user_id, action)
            kept == Retained(rate_limits[key], now)
        IN  /\ rate_limits'[key] = kept
            /\ \A dt \in {0, 1, 3599, 3600} :
                   check_rate_limit(rate_limits', user_id, action, now + dt).ret
                       = check_rate_limit(rate_limits, user_id, action,
                                          now + dt).ret
            /\ Len(kept) = max_requests(action) =>
                   /\ check_rate_limit(rate_limits', user_id, action,
                                       kept[1] + 3600).ret
                   /\ ~check_rate_limit(rate_limits', user_id, action,
                                        kept[1] + 3599).ret
      ]_vars

\* C37 witness: a pair that used up its ceiling at time 0 and was refused
\* is granted a check at time 3600, the only timestamp its key then holds.
C37_Witness ==
    /\ now = 3600
    /\ rl_last = [user_id |-> "u", action |-> "exploit", time |-> 3600,
                  ret |-> TRUE]
    /\ RatePair("u", "exploit") \in rl_denied
    /\ rate_limits[RateKey("u", "exploit")] = <<3600>>
    /\ rl_callers = {RatePair("u", "exploit")}

\* The user of the log_activity calls a step made, and whether the list
\* was cut during them.
LoggingUser == Last(arrivals'.runs).activity.user_id
CutWhileLogging ==
    suspicious_activities'.len - suspicious_activities.len
        # arrivals'.len - arrivals.len

\* C38: log_activity calls of a principal q change for no other principal p
\* the value detect_suspicious_behavior(p) returns at that time.  (Violated:
\* the calls that make the list longer than 1000 cut away p's entries.)
C38_NoInfluenceAcrossPrincipals ==
    [][bursts' # bursts =>
        \A user_id \in MonitorUsers \ {LoggingUser} :
            detect_suspicious_behavior(suspicious_activities', user_id, now)
                = detect_suspicious_behavior(suspicious_activities, user_id, now)
      ]_vars

\* C38 as amended: log_activity calls of q never make
\* detect_suspicious_behavior(p) true for another principal p, and leave its
\* value as it was unless the list was cut during them.
C38_InfluenceOnlyByCut ==
    [][bursts' # bursts =>
        \A user_id \in MonitorUsers \ {LoggingUser} :
            LET before == detect_suspicious_behavior(suspicious_activities,
                                                     user_id, now)
                after == detect_suspicious_behavior(suspicious_activities',
                                                    user_id, now)
            IN  /\ after => before
                /\ ~CutWhileLogging => after = before
      ]_vars

\* C38 witness: p is reported on its 11 entries after q has logged entries
\* of its own behind them, without the list being cut.
C38_Witness ==
    /\ suspicious = [user_id |-> "p", time |-> now, ret |-> TRUE]
    /\ arrivals.runs # <<>>
    /\ Last(arrivals.runs).activity.user_id = "q"
    /\ suspicious_activities = arrivals
    /\ Entries(HeldRecently("p")) = 11

====
